---- MODULE Spec2Model ----
(***************************************************************************)
(* Verification model of the MCP tool-orchestration core:                  *)
(*   - the tool-use loop of Chat.tsx (handleSend),                         *)
(*   - the multi-server connection registry (services/mcp),                *)
(*   - the two wire transports (mcpTransport.ts,                           *)
(*     streamableHttpTransport.ts).                                        *)
(* Every asynchronous function is cut at its await points: one action is   *)
(* the synchronous run of a handler from one suspension point to the next. *)
(***************************************************************************)
EXTENDS Integers, Sequences, FiniteSets, TLC

(***************************************************************************)
(* Bounds of the model (not program constants).                            *)
(***************************************************************************)
\* LLM responses / tool outcomes of one turn that differ from the plain
\* stub behaviour (one well-formed call of a selected tool, which returns).
MaxVaried == 1
\* Tool exceptions count with them; one more is allowed, so that a response
\* with several tool calls can be followed by a failing call.
MaxOutcomes == MaxVaried + 1
\* Calls of the registry's exported functions started in one behaviour.
MaxOps == 3
\* Calls of start(), send() and close() made on one transport.
MaxCalls == 4

(***************************************************************************)
(* Program constants.                                                      *)
(***************************************************************************)
MAX_ITERATIONS == 10

(***************************************************************************)
(* ORCHESTRATOR: data                                                      *)
(***************************************************************************)
\* JSON values are kept by their kind only.
ArgNames == {"title", "query", "use_reranker", "extra"}
NoArgs == [p \in ArgNames |-> "absent"]

TypeOf(v) == IF v = "null" THEN "object" ELSE v

\* The tool catalog held by the component (state mcpTools), in array order.
mcpTools ==
  << [name |-> "add_task", serverName |-> "local",
      required |-> <<"title">>,
      properties |-> [p \in ArgNames |-> IF p = "title" THEN "string" ELSE "none"]],
     [name |-> "search", serverName |-> "tavily",
      required |-> <<"query">>,
      properties |-> [p \in ArgNames |-> IF p = "query" THEN "string" ELSE "none"]],
     [name |-> "rag_data", serverName |-> "local",
      required |-> <<"query">>,
      properties |-> [p \in ArgNames |-> IF p = "query" THEN "string" ELSE "none"]] >>

\* mcpToolConfigs: per tool name, the selected flag and the configured
\* use_reranker argument ("absent" when undefined).
mcpToolConfigs ==
  [n \in {"add_task", "search", "rag_data"} |->
     [selected |-> (n # "search"),
      use_reranker |-> IF n = "rag_data" THEN "boolean" ELSE "absent"]]

AllToolsMutant == mcpTools

\* selectedTools = mcpTools.filter(tool => mcpToolConfigs[tool.name]?.selected)
selectedTools ==
  SelectSeq(mcpTools, LAMBDA t : mcpToolConfigs[t.name].selected)

\* Array.prototype.find by name: the index of the first match, 0 if none.
FindTool(tools, name) ==
  IF \E i \in 1..Len(tools) : tools[i].name = name
  THEN CHOOSE i \in 1..Len(tools) :
         /\ tools[i].name = name
         /\ \A j \in 1..(i-1) : tools[j].name # name
  ELSE 0

ToolNames(tools) == { tools[i].name : i \in 1..Len(tools) }

(***************************************************************************)
(* ORCHESTRATOR: parser and validator (Chat.tsx 719-826)                   *)
(***************************************************************************)
\* One TOOL_CALL ... END_TOOL_CALL block of a response, by what JSON.parse
\* makes of its text: json (it parses), isObject (a non-null object),
\* toolKind (typeof parsed.tool), argsKind (the kind of parsed.arguments).
Block(json, isObject, toolKind, tool, argsKind, args) ==
  [json |-> json, isObject |-> isObject, toolKind |-> toolKind,
   tool |-> tool, argsKind |-> argsKind, args |-> args]

\* The structure check of lines 742-755.
BlockAccepted(b) ==
  /\ b.json
  /\ b.isObject
  /\ b.toolKind = "string"
  /\ b.argsKind \in {"absent", "object", "array"}

ToolCallRequest(b) ==
  [tool |-> b.tool,
   arguments |-> IF b.argsKind = "absent" THEN NoArgs ELSE b.args]

\* The matches collected last to first.
RECURSIVE ReverseOrderMutant(_)
ReverseOrderMutant(blocks) ==
  IF blocks = <<>> THEN <<>>
  ELSE ReverseOrderMutant(Tail(blocks))
         \o (IF BlockAccepted(Head(blocks))
             THEN <<ToolCallRequest(Head(blocks))>> ELSE <<>>)

RECURSIVE parseToolRequests(_)
parseToolRequests(blocks) ==
  IF blocks = <<>> THEN <<>>
  ELSE IF BlockAccepted(Head(blocks))
       THEN <<ToolCallRequest(Head(blocks))>> \o parseToolRequests(Tail(blocks))
       ELSE parseToolRequests(Tail(blocks))

\* Object.entries(args) in insertion order; use_reranker is merged in last.
ArgOrder == <<"title", "query", "extra", "use_reranker">>

Valid == [kind |-> "ok", param |-> "", expected |-> "", actual |-> ""]

\* No type check at all.
NoTypeCheckMutant(tool, p, v) == Valid

\* An argument the schema does not declare is an error.
StrictSchemaMutant(tool, p, v) ==
  IF tool.properties[p] = "none"
  THEN [kind |-> "type", param |-> p, expected |-> "none", actual |-> TypeOf(v)]
  ELSE Valid

\* The type check of one present argument (lines 795-823); Valid if it passes.
CheckParam(tool, p, v) ==
  IF tool.name = "rag_data" /\ p = "use_reranker"
  THEN IF TypeOf(v) # "boolean"
       THEN [kind |-> "type", param |-> p, expected |-> "boolean", actual |-> TypeOf(v)]
       ELSE Valid
  ELSE LET expectedType == tool.properties[p] IN
       IF expectedType = "none" THEN Valid
       ELSE IF expectedType = "string" /\ TypeOf(v) # "string"
       THEN [kind |-> "type", param |-> p, expected |-> "string", actual |-> TypeOf(v)]
       ELSE IF expectedType \in {"number", "integer"} /\ TypeOf(v) # "number"
       THEN [kind |-> "type", param |-> p, expected |-> "number", actual |-> TypeOf(v)]
       ELSE IF expectedType = "boolean" /\ TypeOf(v) # "boolean"
       THEN [kind |-> "type", param |-> p, expected |-> "boolean", actual |-> TypeOf(v)]
       ELSE Valid

NoValidationMutant(tool, args) == Valid

validateToolArguments(tool, args) ==
  LET missing == { i \in 1..Len(tool.required) :
                     args[tool.required[i]] \in {"absent", "undefined", "null"} }
      badType == { i \in 1..Len(ArgOrder) :
                     /\ args[ArgOrder[i]] # "absent"
                     /\ CheckParam(tool, ArgOrder[i], args[ArgOrder[i]]) # Valid }
      Min(S) == CHOOSE i \in S : \A j \in S : i <= j
  IN IF missing # {}
     THEN [kind |-> "missing", param |-> tool.required[Min(missing)],
           expected |-> "", actual |-> ""]
     ELSE IF badType # {}
     THEN CheckParam(tool, ArgOrder[Min(badType)], args[ArgOrder[Min(badType)]])
     ELSE Valid

\* mergedArgs of lines 1059-1068.
MergedArgs(tool, arguments) ==
  IF tool.name = "rag_data" /\ mcpToolConfigs[tool.name].use_reranker # "absent"
  THEN [arguments EXCEPT !["use_reranker"] = mcpToolConfigs[tool.name].use_reranker]
  ELSE arguments

(***************************************************************************)
(* ORCHESTRATOR: messages                                                  *)
(***************************************************************************)
\* The content of a message, by what it carries.  A model response is kept
\* as the response itself (the number of the LLM call that produced it and
\* its tool-call blocks), so "surfaced as-is" is equality of contents.
Content(kind, id, blocks, tool, detail, args) ==
  [kind |-> kind, id |-> id, blocks |-> blocks, tool |-> tool,
   detail |-> detail, args |-> args]

UserMsg(text) ==
  [role |-> "user", content |-> Content("text", 0, <<>>, "", text, NoArgs)]

\* { role: 'assistant', content: <response text> }
ResponseMsg(resp) ==
  [role |-> "assistant", content |-> Content("response", resp.id, resp.blocks, "", "", NoArgs)]

ToolErrorMsg(tool, detail) ==
  [role |-> "assistant", content |-> Content("TOOL_ERROR", 0, <<>>, tool, detail, NoArgs)]

\* TOOL_RESULT echoes toolCall.arguments (not the merged arguments).
ToolResultMsg(tool, args) ==
  [role |-> "assistant", content |-> Content("TOOL_RESULT", 0, <<>>, tool, "result", args)]

SummaryMsg(n) ==
  [role |-> "system", content |-> Content("summary", n, <<>>, "", "", NoArgs)]

IsSummary(m) == m.role = "system" /\ m.content.kind = "summary"

LastN(s, n) == IF Len(s) <= n THEN s ELSE SubSeq(s, Len(s) - n + 1, Len(s))

\* compression.ts getMessagesForAPI
getMessagesForAPI(msgs) ==
  IF \E i \in 1..Len(msgs) : IsSummary(msgs[i])
  THEN LET first == CHOOSE i \in 1..Len(msgs) :
                      /\ IsSummary(msgs[i])
                      /\ \A j \in 1..(i-1) : ~IsSummary(msgs[j])
           nonSummaryMessages == SelectSeq(msgs, LAMBDA m : ~IsSummary(m))
       IN <<msgs[first]>> \o LastN(nonSummaryMessages, 2)
  ELSE msgs

\* The few-shot examples put before the first request of a turn when a tool
\* is selected (lines 870-978): user / assistant pairs.
FewShotMsg(role, n) ==
  [role |-> role, content |-> Content("fewshot", n, <<>>, "", "", NoArgs)]

fewShotExamples ==
  << FewShotMsg("user", 1), FewShotMsg("assistant", 1),
     FewShotMsg("user", 2), FewShotMsg("assistant", 2) >>
  \o (IF "tavily_search" \in ToolNames(selectedTools)
      THEN << FewShotMsg("user", 3), FewShotMsg("assistant", 3) >> ELSE <<>>)
  \o (IF "rag_data" \in ToolNames(selectedTools)
      THEN << FewShotMsg("user", 4), FewShotMsg("assistant", 4),
              FewShotMsg("user", 5), FewShotMsg("assistant", 5) >> ELSE <<>>)

(***************************************************************************)
(* ORCHESTRATOR: state                                                     *)
(***************************************************************************)
VARIABLES
  messages,               \* component state: the transcript
  isLoading,              \* component state
  error,                  \* component state: "none" or the error shown
  assistantResponseCount, \* component state
  pc,                     \* where handleSend is suspended: "idle", "firstCall",
                          \* "tool", "nextCall", or "done" (it has returned)
  closureMessages,        \* `messages` as captured by the running handleSend
  currentMessages,        \* local of handleSend (baseMessages at first)
  currentResponse,        \* local of handleSend
  iteration,              \* local of handleSend
  requestedToolCalls,     \* local of handleSend
  callIdx,                \* index of the request whose callMCPTool is awaited
  toolResults,            \* local of handleSend
  apiMessages,            \* the message list of the latest LLM request
  llmCalls,               \* history: LLM requests issued in this turn
  toolLog,                \* history: the callMCPTool invocations, in order
  varied,                 \* non-stub responses / outcomes used so far
  compression             \* "none", "pending" or "settled": performCompression

orchVars ==
  << messages, isLoading, error, assistantResponseCount, pc, closureMessages,
     currentMessages, currentResponse, iteration, requestedToolCalls, callIdx,
     toolResults, apiMessages, llmCalls, toolLog, varied, compression >>

NoResponse == [id |-> 0, blocks |-> <<>>]

\* Tool-call blocks an LLM may emit.
OkBlock ==
  Block(TRUE, TRUE, "string", "add_task", "object", [NoArgs EXCEPT !["title"] = "string"])
MissingArgBlock ==
  Block(TRUE, TRUE, "string", "add_task", "absent", NoArgs)
WrongTypeBlock ==
  Block(TRUE, TRUE, "string", "add_task", "object", [NoArgs EXCEPT !["title"] = "number"])
UnselectedBlock ==
  Block(TRUE, TRUE, "string", "search", "object", [NoArgs EXCEPT !["query"] = "string"])
NotJsonBlock ==
  Block(FALSE, FALSE, "absent", "", "absent", NoArgs)
RagBlock ==
  Block(TRUE, TRUE, "string", "rag_data", "object", [NoArgs EXCEPT !["query"] = "string"])

\* What the stubbed backend always answers: one new valid tool call.
StubBlocks == << OkBlock >>

\* The responses the backend may give (by their blocks); <<>> is plain text.
ResponsePool ==
  { <<>>, StubBlocks, << MissingArgBlock >>, << UnselectedBlock >>,
    << NotJsonBlock >>, << UnselectedBlock, OkBlock >>,
    << WrongTypeBlock, OkBlock >>, << OkBlock, RagBlock >>,
    << NotJsonBlock, OkBlock >> }

\* A saved conversation of n exchanges, as loadConversation restores it.
SavedConversation(n) ==
  [i \in 1..(2*n) |->
     IF i % 2 = 1 THEN UserMsg("earlier")
     ELSE ResponseMsg([id |-> 0, blocks |-> <<>>])]

\* A saved conversation of n >= 5 exchanges: performCompression appended the
\* summary after the fifth response (lines 1180-1182, 1203-1211), and the
\* later exchanges follow it.
CompressedConversation(n) ==
  SavedConversation(5) \o << SummaryMsg(5) >> \o SavedConversation(n - 5)

\* The transcript loadConversation restores after n exchanges.
RestoredMessages(n) ==
  IF n >= 5 THEN CompressedConversation(n) ELSE SavedConversation(n)

OrchInit ==
  /\ \E n \in {0, 4, 9} :
       /\ messages = RestoredMessages(n)
       /\ assistantResponseCount = n
  /\ isLoading = FALSE
  /\ error = "none"
  /\ pc = "idle"
  /\ closureMessages = <<>>
  /\ currentMessages = <<>>
  /\ currentResponse = NoResponse
  /\ iteration = 0
  /\ requestedToolCalls = <<>>
  /\ callIdx = 0
  /\ toolResults = <<>>
  /\ apiMessages = <<>>
  /\ llmCalls = 0
  /\ toolLog = <<>>
  /\ varied = 0
  /\ compression = "none"

(***************************************************************************)
(* ORCHESTRATOR: handleSend (Chat.tsx 828-1193), cut at its awaits         *)
(***************************************************************************)
\* The for loop of lines 1039-1114 run synchronously from request i: every
\* request that does not reach callMCPTool pushes its TOOL_ERROR and the
\* loop continues; it stops at the first request that is called (idx) or
\* past the last one.
RECURSIVE RunLoop(_, _, _)
RunLoop(reqs, i, acc) ==
  IF i > Len(reqs) THEN [idx |-> i, results |-> acc]
  ELSE LET toolCall == reqs[i]
           found == FindTool(selectedTools, toolCall.tool)
       IN IF found = 0
          THEN RunLoop(reqs, i + 1,
                       Append(acc, ToolErrorMsg(toolCall.tool, "not_selected")))
          ELSE LET tool == selectedTools[found]
                   validationError ==
                     validateToolArguments(tool, MergedArgs(tool, toolCall.arguments))
               IN IF validationError # Valid
                  THEN RunLoop(reqs, i + 1,
                               Append(acc, ToolErrorMsg(tool.name, validationError.kind)))
                  ELSE [idx |-> i, results |-> acc]

\* Continue the while-loop body from request i with toolResults acc: either
\* suspend in callMCPTool (line 1084) or, the requests exhausted, extend
\* currentMessages and suspend in the next LLM request (lines 1116-1154).
ProcessFrom(resp, reqs, i, acc) ==
  LET r == RunLoop(reqs, i, acc) IN
  IF r.idx <= Len(reqs)
  THEN LET tool == selectedTools[FindTool(selectedTools, reqs[r.idx].tool)] IN
       /\ pc' = "tool"
       /\ callIdx' = r.idx
       /\ toolResults' = r.results
       /\ toolLog' = Append(toolLog,
                            [tool |-> tool.name,
                             args |-> MergedArgs(tool, reqs[r.idx].arguments),
                             resp |-> resp.id, idx |-> r.idx])
       /\ UNCHANGED << currentMessages, apiMessages, llmCalls >>
  ELSE /\ pc' = "nextCall"
       /\ callIdx' = 0
       /\ toolResults' = r.results
       /\ currentMessages' = currentMessages \o << ResponseMsg(resp) >> \o r.results
       /\ apiMessages' = getMessagesForAPI(currentMessages')
       /\ llmCalls' = llmCalls + 1
       /\ UNCHANGED toolLog

\* The while condition of line 1021 without the break of lines 1025-1031.
NoBreakMutant(iter, reqs) == iter < MAX_ITERATIONS

\* The while condition of line 1021 with the break of lines 1025-1031.
LoopOffByOneMutant(iter, reqs) == iter <= MAX_ITERATIONS /\ Len(reqs) > 0

LoopContinues(iter, reqs) == iter < MAX_ITERATIONS /\ Len(reqs) > 0

\* What the catch block restores: setMessages(messages), line 1189.
KeepPartialMutant == currentMessages

RollbackMessages == closureMessages

\* Lines 1159-1182 and the finally block: the final assistant message.
Finish(resp) ==
  /\ messages' = currentMessages \o << ResponseMsg(resp) >>
  /\ assistantResponseCount' = assistantResponseCount + 1
  /\ compression' = IF (assistantResponseCount + 1) % 5 = 0 THEN "pending" ELSE "none"
  /\ isLoading' = FALSE
  /\ pc' = "done"
  /\ UNCHANGED << error, currentMessages, callIdx, toolResults, apiMessages,
                  llmCalls, toolLog, requestedToolCalls >>

\* handleSend(userMessage) up to its first await.
HandleSend(userMessage) ==
  /\ pc = "idle"
  /\ ~isLoading
  /\ closureMessages' = messages
  /\ currentMessages' = messages \o << UserMsg(userMessage) >>
  /\ isLoading' = TRUE
  /\ error' = "none"
  /\ apiMessages' = (IF Len(selectedTools) > 0 THEN fewShotExamples ELSE <<>>)
                      \o getMessagesForAPI(currentMessages')
  /\ llmCalls' = 1
  /\ pc' = "firstCall"
  /\ UNCHANGED << messages, assistantResponseCount, currentResponse, iteration,
                  requestedToolCalls, callIdx, toolResults, toolLog, varied,
                  compression >>

\* The awaited LLM request resolves with a response (first or follow-up):
\* the head of the while loop, line 1021.
LLMRespond(blocks) ==
  /\ pc \in {"firstCall", "nextCall"}
  /\ IF blocks \in {<<>>, StubBlocks}
     THEN varied' = varied
     ELSE varied < MaxVaried /\ varied' = varied + 1
  /\ LET resp == [id |-> llmCalls, blocks |-> blocks]
         iter == IF pc = "firstCall" THEN 0 ELSE iteration + 1
         reqs == parseToolRequests(blocks)
     IN /\ currentResponse' = resp
        /\ iteration' = iter
        /\ IF LoopContinues(iter, reqs)
           THEN /\ requestedToolCalls' = reqs
                /\ ProcessFrom(resp, reqs, 1, <<>>)
                /\ UNCHANGED << messages, isLoading, error,
                                assistantResponseCount, compression >>
           ELSE Finish(resp)
  /\ UNCHANGED closureMessages

\* The awaited LLM request rejects: the catch block of lines 1183-1192.
LLMFail ==
  /\ pc \in {"firstCall", "nextCall"}
  /\ error' = "llm"
  /\ messages' = RollbackMessages
  /\ isLoading' = FALSE
  /\ pc' = "done"
  /\ UNCHANGED << assistantResponseCount, closureMessages, currentMessages,
                  currentResponse, iteration, requestedToolCalls, callIdx,
                  toolResults, apiMessages, llmCalls, toolLog, varied, compression >>

\* callMCPTool resolves: TOOL_RESULT is pushed and the for loop goes on.
ToolReturn ==
  /\ pc = "tool"
  /\ LET toolCall == requestedToolCalls[callIdx]
         tool == selectedTools[FindTool(selectedTools, toolCall.tool)]
     IN ProcessFrom(currentResponse, requestedToolCalls, callIdx + 1,
                    Append(toolResults, ToolResultMsg(tool.name, toolCall.arguments)))
  /\ UNCHANGED << messages, isLoading, error, assistantResponseCount,
                  closureMessages, currentResponse, iteration,
                  requestedToolCalls, varied, compression >>

\* The exception leaves the for-loop of line 1039 (no inner catch).
SkipRestMutant(i) == Len(requestedToolCalls) + 1

\* The inner catch (lines 1103-1113) ends the loop body of request i: the
\* for-loop of line 1039 goes on with the next request.
AfterThrow(i) == i + 1

\* callMCPTool rejects: the inner catch of lines 1103-1113.
ToolThrow ==
  /\ pc = "tool"
  /\ varied < MaxOutcomes
  /\ varied' = varied + 1
  /\ LET toolCall == requestedToolCalls[callIdx]
         tool == selectedTools[FindTool(selectedTools, toolCall.tool)]
     IN ProcessFrom(currentResponse, requestedToolCalls, AfterThrow(callIdx),
                    Append(toolResults, ToolErrorMsg(tool.name, "exception")))
  /\ UNCHANGED << messages, isLoading, error, assistantResponseCount,
                  closureMessages, currentResponse, iteration,
                  requestedToolCalls, compression >>

\* The transcript replaced by the summary.
ReplaceAllMutant(prevMessages, summaryMessage) == << summaryMessage >>

\* The updater of lines 1203-1211: the old summary is filtered out and the
\* new one appended.
WithNewSummary(prevMessages, summaryMessage) ==
  SelectSeq(prevMessages, LAMBDA m : ~IsSummary(m)) \o << summaryMessage >>

\* performCompression (lines 1195-1218), started without await at line 1181.
CompressionDone ==
  /\ compression = "pending"
  /\ compression' = "settled"
  /\ messages' = WithNewSummary(messages, SummaryMsg(assistantResponseCount))
  /\ UNCHANGED << isLoading, error, assistantResponseCount, pc, closureMessages,
                  currentMessages, currentResponse, iteration,
                  requestedToolCalls, callIdx, toolResults, apiMessages,
                  llmCalls, toolLog, varied >>

CompressionFail ==
  /\ compression = "pending"
  /\ compression' = "settled"
  /\ UNCHANGED << messages, isLoading, error, assistantResponseCount, pc,
                  closureMessages, currentMessages, currentResponse, iteration,
                  requestedToolCalls, callIdx, toolResults, apiMessages,
                  llmCalls, toolLog, varied >>



(***************************************************************************)
(* AGENT-TASK HOOK (hooks/useAgentTasks.ts, Chat.tsx 1220-1236)            *)
(***************************************************************************)
VARIABLES
  poll,        \* one run of checkAndProcessTasks: "none", "fetching" (awaiting
               \* getPendingAgentTasks), "turn" (awaiting the LLM request of
               \* the handleSend it called) or "done"
  pollClosure, \* the component state captured by the onGenerateSummary this
               \* run calls
  autoCalls    \* history: LLM requests issued by the handleSend this run called

hookVars == << poll, pollClosure, autoCalls >>

\* What the handleSend of one render reads of the component state.
Closure(loading, msgs, count) ==
  [isLoading |-> loading, messages |-> msgs, assistantResponseCount |-> count]

HookIdle ==
  /\ poll = "none" /\ autoCalls = 0
  /\ pollClosure = Closure(FALSE, <<>>, 0)

\* checkAndProcessTasks() up to `await getPendingAgentTasks()` (lines 31-33),
\* called by the effect and by its interval (lines 76-79). The effect is
\* re-run whenever onGenerateSummary changes (line 82), which is on every
\* change of the component state (Chat.tsx 1230): the run holds the
\* handleSend of the render it started in.
checkAndProcessTasks ==
  /\ poll = "none"
  /\ poll' = "fetching"
  /\ pollClosure' = Closure(isLoading, messages, assistantResponseCount)
  /\ UNCHANGED << orchVars, autoCalls >>

\* getPendingAgentTasks resolves with no task, or rejects (lines 46-48).
NoPendingTask ==
  /\ poll = "fetching"
  /\ poll' = "done"
  /\ UNCHANGED << orchVars, pollClosure, autoCalls >>

\* The guard of handleSend, line 829, on the state handleSend captured.
Busy(closure) == closure.isLoading

\* getPendingAgentTasks resolves with a generate_summary task: processTask
\* (lines 51-57) calls onGenerateSummary, which calls handleSend with the
\* summary prompt (Chat.tsx 1226). handleSend runs up to its first await.
processTask ==
  /\ poll = "fetching"
  /\ IF Busy(pollClosure)
     THEN /\ poll' = "done"
          /\ UNCHANGED << orchVars, autoCalls >>
     ELSE /\ poll' = "turn"
          /\ isLoading' = TRUE
          /\ error' = "none"
          /\ autoCalls' = autoCalls + 1
          /\ UNCHANGED << messages, assistantResponseCount, pc, closureMessages,
                          currentMessages, currentResponse, iteration,
                          requestedToolCalls, callIdx, toolResults, apiMessages,
                          llmCalls, toolLog, varied, compression >>
  /\ UNCHANGED pollClosure

\* The LLM request of that handleSend resolves with a text without tool
\* calls: the while loop is not entered and lines 1159-1182 and the finally
\* block run on what handleSend captured.
AutoRespond ==
  /\ poll = "turn"
  /\ poll' = "done"
  /\ messages' = pollClosure.messages \o
                   << UserMsg("summary"), ResponseMsg([id |-> 1, blocks |-> <<>>]) >>
  /\ assistantResponseCount' = pollClosure.assistantResponseCount + 1
  /\ compression' = IF (pollClosure.assistantResponseCount + 1) % 5 = 0
                    THEN "pending" ELSE compression
  /\ isLoading' = FALSE
  /\ UNCHANGED << error, pc, closureMessages, currentMessages, currentResponse,
                  iteration, requestedToolCalls, callIdx, toolResults,
                  apiMessages, llmCalls, toolLog, varied, pollClosure, autoCalls >>

\* The LLM request of that handleSend rejects: the catch block of lines
\* 1183-1192 restores the transcript handleSend captured.
AutoFail ==
  /\ poll = "turn"
  /\ poll' = "done"
  /\ error' = "llm"
  /\ messages' = pollClosure.messages
  /\ isLoading' = FALSE
  /\ UNCHANGED << assistantResponseCount, pc, closureMessages, currentMessages,
                  currentResponse, iteration, requestedToolCalls, callIdx,
                  toolResults, apiMessages, llmCalls, toolLog, varied,
                  compression, pollClosure, autoCalls >>

(***************************************************************************)
(* ORCHESTRATOR: properties                                                *)
(***************************************************************************)
ToolByName(name) == mcpTools[FindTool(mcpTools, name)]

IsSelectedName(name) ==
  /\ name \in DOMAIN mcpToolConfigs
  /\ mcpToolConfigs[name].selected

NonSummary(msgs) == SelectSeq(msgs, LAMBDA m : ~IsSummary(m))

\* The turn returned normally with a response that still holds tool calls.
AtCeiling ==
  /\ pc = "done"
  /\ error = "none"
  /\ Len(parseToolRequests(currentResponse.blocks)) > 0

\* C1 (as stated): against a backend that answers every request with a new
\* valid tool call, the loop stops after exactly 10 iterations and the
\* response returned is the 10th response of the turn.
C1_TenthResponse ==
  AtCeiling => /\ iteration = MAX_ITERATIONS
               /\ currentResponse.id = MAX_ITERATIONS

\* C1 (amended): the loop stops after exactly 10 iterations, i.e. after 11
\* LLM requests; the response returned is the 11th one (the answer to the
\* request issued at the end of the 10th iteration); it becomes the final
\* assistant message unchanged and none of its tool calls is executed.  The
\* turn never runs more than 10 iterations.
C1_CeilingAfterTenIterations ==
  /\ iteration <= MAX_ITERATIONS
  /\ llmCalls <= MAX_ITERATIONS + 1
  /\ AtCeiling =>
       /\ iteration = MAX_ITERATIONS
       /\ llmCalls = MAX_ITERATIONS + 1
       /\ currentResponse.id = MAX_ITERATIONS + 1
       /\ LET shown == NonSummary(messages)
          IN /\ Len(shown) > 0
             /\ shown[Len(shown)] = ResponseMsg(currentResponse)
       /\ \A k \in 1..Len(toolLog) :
            /\ toolLog[k].resp # currentResponse.id
            /\ toolLog[k].resp \in 1..MAX_ITERATIONS

\* The stub run itself reached the ceiling.
C1_Witness ==
  /\ AtCeiling
  /\ varied = 0
  /\ currentResponse.blocks = StubBlocks

\* C2: callMCPTool is invoked for a request only if its tool name is one of
\* the selected tools and its (merged) arguments pass validation; every
\* other request gets a TOOL_ERROR message in its place and the requests
\* after it in the same response are still processed.
C2_OnlySelectedAndValidCalled ==
  /\ \A k \in 1..Len(toolLog) :
       /\ IsSelectedName(toolLog[k].tool)
       /\ validateToolArguments(ToolByName(toolLog[k].tool), toolLog[k].args) = Valid
  /\ pc \in {"tool", "nextCall"} =>
       /\ Len(toolResults) <= Len(requestedToolCalls)
       /\ pc = "nextCall" => Len(toolResults) = Len(requestedToolCalls)
       /\ pc = "tool" => Len(toolResults) = callIdx - 1
       /\ \A i \in 1..Len(toolResults) :
            LET rq == requestedToolCalls[i]
                ok == /\ IsSelectedName(rq.tool)
                      /\ validateToolArguments(ToolByName(rq.tool),
                           MergedArgs(ToolByName(rq.tool), rq.arguments)) = Valid
                called == \E k \in 1..Len(toolLog) :
                            /\ toolLog[k].resp = currentResponse.id
                            /\ toolLog[k].idx = i
                            /\ toolLog[k].tool = rq.tool
            IN /\ called <=> ok
               /\ ~ok => /\ toolResults[i].content.kind = "TOOL_ERROR"
                         /\ toolResults[i].content.tool = rq.tool
                         /\ toolResults[i].content.detail
                              \in {"not_selected", "missing", "type"}

\* A response whose first request names an unselected tool and whose second
\* is valid: the first got TOOL_ERROR, the second was called.
C2_Witness ==
  /\ pc = "nextCall"
  /\ Len(toolResults) = 2
  /\ toolResults[1].content.kind = "TOOL_ERROR"
  /\ toolResults[1].content.detail = "not_selected"
  /\ toolResults[2].content.kind = "TOOL_RESULT"
  /\ Len(toolLog) > 0

\* C7: when an LLM request of the turn fails, the turn ends with an error,
\* the transcript is the one from before the turn (no message of the turn
\* is kept) and isLoading is cleared.
C7_LLMFailureRollsBack ==
  /\ error # "none" => pc = "done"
  /\ (pc = "done" /\ error # "none") =>
       /\ messages = RestoredMessages(assistantResponseCount)
       /\ ~isLoading
       /\ compression = "none"

\* A follow-up request failed after a tool had run, on a non-empty transcript.
C7_Witness ==
  /\ pc = "done"
  /\ error = "llm"
  /\ Len(toolLog) > 0
  /\ Len(currentMessages) > Len(messages) + 1
  /\ Len(messages) > 0

\* The callMCPTool awaited in this step threw: its outcome message is the
\* TOOL_ERROR of the inner catch.
ToolThrew ==
  /\ pc = "tool"
  /\ Len(toolResults') >= callIdx
  /\ toolResults'[callIdx].content.kind = "TOOL_ERROR"
  /\ toolResults'[callIdx].content.detail = "exception"

\* C16: a tool invocation that throws becomes the TOOL_ERROR message of that
\* tool with the exception's message, and the turn goes on: no error is set,
\* the transcript is not rolled back, every remaining request of the response
\* is processed (one outcome message each), and either the next tool is
\* invoked or the next model call is made with the TOOL_ERROR in its context.
C16_ToolExceptionNotFatal ==
  [][ToolThrew =>
       /\ toolResults'[callIdx] =
            ToolErrorMsg(requestedToolCalls[callIdx].tool, "exception")
       /\ error' = error /\ isLoading' /\ messages' = messages
       /\ \/ /\ pc' = "tool"
             /\ callIdx' > callIdx
             /\ Len(toolResults') = callIdx' - 1
          \/ /\ pc' = "nextCall"
             /\ Len(toolResults') = Len(requestedToolCalls)
             /\ llmCalls' = llmCalls + 1
             /\ \E i \in 1..Len(currentMessages') :
                  currentMessages'[i] = toolResults'[callIdx]
    ]_orchVars

\* The first tool call of a response threw, a later one of the same response
\* ran, and the next model call has been made.
C16_Witness ==
  /\ pc = "nextCall"
  /\ Len(toolResults) >= 2
  /\ toolResults[1].content.detail = "exception"
  /\ toolResults[2].content.kind = "TOOL_RESULT"

\* The awaited LLM request resolves in this step; currentResponse' is the
\* response.
LLMResponded ==
  /\ pc \in {"firstCall", "nextCall"}
  /\ error' = "none"
  /\ pc' # pc \/ llmCalls' # llmCalls

\* C17: a model response without tool-call blocks ends the turn at once: no
\* tool is invoked, no further model call is made, and the turn's transcript
\* with that response, unchanged, as its last message becomes the transcript.
C17_NoToolCallsEndsTurn ==
  [][(LLMResponded /\ currentResponse'.blocks = <<>>) =>
       /\ pc' = "done" /\ ~isLoading' /\ error' = "none"
       /\ toolLog' = toolLog
       /\ llmCalls' = llmCalls
       /\ messages' = currentMessages \o << ResponseMsg(currentResponse') >>
       /\ messages'[Len(messages')].content.blocks = <<>>
    ]_orchVars

\* A turn in which a tool ran has ended on a response without tool-call
\* blocks, which is the last message of the transcript.
C17_Witness ==
  /\ pc = "done" /\ error = "none"
  /\ currentResponse.blocks = <<>>
  /\ toolLog # <<>>
  /\ messages # <<>>
  /\ messages[Len(messages)] = ResponseMsg(currentResponse)

\* The messages of a appear in b, in the same order.
RECURSIVE IsSubseq(_, _)
IsSubseq(a, b) ==
  IF a = <<>> THEN TRUE
  ELSE IF b = <<>> THEN FALSE
  ELSE IF Head(a) = Head(b) THEN IsSubseq(Tail(a), Tail(b))
  ELSE IsSubseq(a, Tail(b))

\* C18: while a follow-up model call is in flight, the message list it was
\* sent contains, in order, the original messages with this turn's user
\* message, the model's response and one outcome message for every tool call
\* of that response (and those of the earlier iterations of the turn),
\* whether or not the transcript holds a conversation summary.
C18_FollowUpCarriesWholeTurn ==
  pc = "nextCall" =>
    /\ currentMessages =
         SubSeq(currentMessages, 1, Len(currentMessages) - Len(toolResults) - 1)
           \o << ResponseMsg(currentResponse) >> \o toolResults
    /\ Len(toolResults) = Len(requestedToolCalls)
    /\ IsSubseq(closureMessages, currentMessages)
    /\ IsSubseq(currentMessages, apiMessages)

IsPrefix(a, b) == Len(a) <= Len(b) /\ SubSeq(b, 1, Len(a)) = a

\* C19 as stated: every step that does not end in an error (a completed
\* turn, a compression run) leaves the transcript it found as a prefix of
\* the new transcript.
C19_TranscriptOnlyAppends ==
  [][error' = "none" => IsPrefix(messages, messages')]_orchVars

\* C19, amended: every step that does not end in an error leaves the
\* messages other than conversation summaries as a prefix, in order, of those
\* of the new transcript; a compression run removes the earlier summary and
\* appends the new one at the end.
C19_NonSummaryOnlyAppends ==
  [][error' = "none" =>
       /\ IsPrefix(NonSummary(messages), NonSummary(messages'))
       /\ (compression = "pending" /\ messages' # messages) =>
            /\ IsSummary(messages'[Len(messages')])
            /\ messages' = NonSummary(messages) \o << messages'[Len(messages')] >>
    ]_orchVars

\* A compression run has completed on a transcript that held the summary of
\* an earlier run: the new summary is last, the old one is gone.
C19_Witness ==
  /\ compression = "settled"
  /\ assistantResponseCount = 10
  /\ messages # <<>>
  /\ messages[Len(messages)] = SummaryMsg(10)
  /\ \A i \in 1..Len(messages) : messages[i] # SummaryMsg(5)
  /\ Len(NonSummary(messages)) > 18

\* The tool names of the well-formed blocks of a response, in text order.
BlockTools(resp) ==
  LET accepted == SelectSeq(resp.blocks, BlockAccepted)
  IN [i \in 1..Len(accepted) |-> accepted[i].tool]

\* C20: within one model turn the requests are those of the response's
\* blocks in text order; a tool is invoked for request N only when every
\* earlier request of the response has its outcome and no other invocation
\* is pending; invocations of one response are made in increasing request
\* order; and the outcome messages stand in request order, in toolResults and
\* in the transcript extended with them.
C20_SequentialInBlockOrder ==
  /\ pc \in {"tool", "nextCall"} =>
       /\ [i \in 1..Len(requestedToolCalls) |-> requestedToolCalls[i].tool]
            = BlockTools(currentResponse)
       /\ \A k \in 1..Len(toolResults) :
            toolResults[k].content.tool = requestedToolCalls[k].tool
  /\ pc = "tool" =>
       /\ Len(toolResults) = callIdx - 1
       /\ toolLog # <<>>
       /\ toolLog[Len(toolLog)].resp = currentResponse.id
       /\ toolLog[Len(toolLog)].idx = callIdx
       /\ toolLog[Len(toolLog)].tool = requestedToolCalls[callIdx].tool
  /\ pc = "nextCall" =>
       /\ Len(toolResults) = Len(requestedToolCalls)
       /\ Len(currentMessages) > Len(toolResults)
       /\ SubSeq(currentMessages, Len(currentMessages) - Len(toolResults) + 1,
                 Len(currentMessages)) = toolResults
  /\ \A i, j \in 1..Len(toolLog) :
       i < j => \/ toolLog[i].resp < toolLog[j].resp
                \/ toolLog[i].resp = toolLog[j].resp /\ toolLog[i].idx < toolLog[j].idx

\* Both tool calls of one response were invoked, the first before the
\* second, and their outcomes are in the follow-up request's transcript.
C20_Witness ==
  /\ pc = "nextCall"
  /\ Len(requestedToolCalls) = 2
  /\ Len(toolLog) >= 2
  /\ toolLog[Len(toolLog)].resp = toolLog[Len(toolLog) - 1].resp
  /\ toolLog[Len(toolLog) - 1].tool = "add_task"
  /\ toolLog[Len(toolLog)].tool = "rag_data"
  /\ toolResults[1].content.tool = "add_task"
  /\ toolResults[2].content.tool = "rag_data"

\* A handleSend call is between its first await and its return: the one of
\* the user, the one of the agent-task hook.
UserTurnRunning == pc \in { "firstCall", "tool", "nextCall" }
AutoTurnRunning == poll = "turn"

\* C37: at most one handleSend call is past its guard at any time, and a
\* handleSend called by the agent-task hook while the call of the user is
\* running issues no LLM request and leaves the transcript as it is.
C37_OneTurnAtATime ==
  /\ [](~(UserTurnRunning /\ AutoTurnRunning))
  /\ [][ (UserTurnRunning /\ poll = "fetching" /\ poll' # "fetching") =>
           (autoCalls' = autoCalls /\ messages' = messages /\ poll' = "done")
       ]_<< orchVars, hookVars >>

(***************************************************************************)
(* CONNECTION REGISTRY (services/mcp, multi-server): data                  *)
(***************************************************************************)
\* The server names getServerConfigs can produce, in the order it pushes them.
ServerOrder == << "local", "tavily" >>
Servers == { ServerOrder[i] : i \in 1..Len(ServerOrder) }

\* What each server answers to tools/list.
DeclaredTools ==
  [s \in Servers |-> IF s = "local" THEN << "add_task", "echo" >>
                     ELSE << "search", "echo" >>]

\* The concurrent callers of the registry's exported functions.
Callers == { "a", "b" }

\* callTool(name, args, serverName?) inputs; "" is an omitted server name.
CallInputs ==
  { << "search", "" >>, << "add_task", "" >>, << "echo", "" >>, << "nope", "" >>,
    << "search", "tavily" >> }

NoStatus == [present |-> FALSE, connected |-> FALSE, toolCount |-> 0, error |-> ""]

\* One call of an exported function: its locals and, once it has settled
\* (pc = "done"), what it returned or threw (error).
IdleTask ==
  [op |-> "none", pc |-> "idle",
   attempts |-> [s \in Servers |-> "none"],
   snapshot |-> <<>>, cut |-> FALSE, fetched |-> <<>>,
   toolName |-> "", serverName |-> "",
   target |-> 0, targetLive |-> FALSE,
   error |-> "none",
   connected |-> <<>>, failed |-> <<>>,
   tools |-> <<>>, statuses |-> [s \in Servers |-> NoStatus],
   invoked |-> "", definition |-> ""]

VARIABLES
  configs,            \* getServerConfigs(): the configured (enabled) servers
  mcpServers,         \* the Map name -> connection, in insertion order
  connectingServers,  \* the Set of names being connected
  transports,         \* the transport/client pairs that exist: handshaking,
                      \* live, or closed but still held by the map
  tasks,              \* per caller, the call it is running or ran last
  opsStarted          \* calls started so far (bounded)

regVars == << configs, mcpServers, connectingServers, transports, tasks, opsStarted >>

MapHas(name) == \E i \in 1..Len(mcpServers) : mcpServers[i].name = name

\* mcpServers.get(name): the transport id of the entry (0 if absent).
MapGet(name) ==
  IF MapHas(name)
  THEN mcpServers[CHOOSE i \in 1..Len(mcpServers) : mcpServers[i].name = name].tid
  ELSE 0

\* mcpServers.set(name, connection): replaces in place or appends.
MapSet(map, name, tid) ==
  IF \E i \in 1..Len(map) : map[i].name = name
  THEN [i \in 1..Len(map) |->
          IF map[i].name = name THEN [name |-> name, tid |-> tid] ELSE map[i]]
  ELSE Append(map, [name |-> name, tid |-> tid])

\* Promise.race in place of Promise.allSettled: the first settled attempt.
FirstSettledMutant(task) ==
  \/ \A s \in Servers : task.attempts[s] = "none"
  \/ \E s \in Servers : task.attempts[s] \notin {"none", "pending"}

Settled(task) == \A s \in Servers : task.attempts[s] # "pending"

\* The transport/client pair with the given id among trs.
Transport(trs, tid) == CHOOSE t \in trs : t.id = tid

\* The k-th smallest id no existing transport has (ids of discarded pairs
\* are free again: nothing refers to them).
RECURSIVE FreeId(_, _)
FreeId(used, k) ==
  LET least == CHOOSE n \in 1..(Cardinality(used) + 1) :
                 /\ n \notin used
                 /\ \A m \in 1..(n-1) : m \in used
  IN IF k = 1 THEN least ELSE FreeId(used \cup {least}, k - 1)

\* Lines 97-99: "tavily" gets a StreamableHttpTransport, whose close() awaits
\* a DELETE request; every other server a DualChannelTransport, whose close()
\* awaits nothing.
Streamable(s) == s = "tavily"

(***************************************************************************)
(* CONNECTION REGISTRY: operations.  An action is one run of the code      *)
(* between two awaits that wait for the network; an await on promises that *)
(* have all settled already resumes within the same action.                *)
(***************************************************************************)
RegInit ==
  /\ configs \in { <<>>, << "tavily" >>, ServerOrder }
  /\ mcpServers = <<>>
  /\ connectingServers = {}
  /\ transports = {}
  /\ tasks = [c \in Callers |-> IdleTask]
  /\ opsStarted = 0

\* A caller starts a call when its previous one has settled; of two callers
\* at rest the first one ("a") makes the call.
CanStart(c) ==
  /\ tasks[c].pc \in {"idle", "done"}
  /\ \A d \in Callers : (d # c /\ tasks[d].pc \in {"idle", "done"}) => c = "a"
  /\ opsStarted < MaxOps
  /\ opsStarted' = opsStarted + 1

NewTask(op) == [IdleTask EXCEPT !.op = op]

\* The call settles: its locals are gone, what it returned or threw stays.
Done(task, err) ==
  [task EXCEPT !.pc = "done", !.error = err,
               !.attempts = IdleTask.attempts, !.cut = FALSE,
               !.target = 0, !.targetLive = FALSE]

\* callMCPTool, lines 318-338: client.callTool is issued on connection tid;
\* on a closed transport send() throws at once.
InvokeStage(task, tid, trs) ==
  LET called == [task EXCEPT !.invoked = Transport(trs, tid).server]
  IN IF Transport(trs, tid).st = "live"
     THEN [called EXCEPT !.pc = "calling", !.target = tid, !.targetLive = TRUE]
     ELSE Done(called, "CallFailed")

\* Line 217: the server a fetch result at index i is attributed to is read
\* from the map as it is when the results are processed.
ResultServer(task, map, i) == map[i].name

\* Lines 223-255: the tools of the fetch issued at index i, tagged.
TaggedTools(task, map, i) ==
  LET declared == DeclaredTools[task.snapshot[i].name]
  IN [k \in 1..Len(declared) |->
        [name |-> declared[k], serverName |-> ResultServer(task, map, i)]]

RECURSIVE MergeTools(_, _, _, _)
MergeTools(task, map, outcomes, i) ==
  IF i > Len(task.snapshot) THEN <<>>
  ELSE (IF outcomes[i] = "ok" THEN TaggedTools(task, map, i) ELSE <<>>)
       \o MergeTools(task, map, outcomes, i + 1)

\* Lines 215-274: the forEach over fetchResults.  Reading entry `index` of a
\* map that has become shorter throws (a TypeError), which rejects the call.
ListResult(task, map, outcomes) ==
  IF Len(task.snapshot) > Len(map)
  THEN Done(task, "TypeError")
  ELSE [Done(task, "none") EXCEPT
          !.tools = MergeTools(task, map, outcomes, 1),
          !.statuses =
             [s \in Servers |->
                IF \E i \in 1..Len(task.snapshot) : ResultServer(task, map, i) = s
                THEN LET i == CHOOSE i \in 1..Len(task.snapshot) :
                                 ResultServer(task, map, i) = s
                     IN IF outcomes[i] = "ok"
                        THEN [present |-> TRUE, connected |-> TRUE,
                              toolCount |-> Len(TaggedTools(task, map, i)), error |-> ""]
                        ELSE [present |-> TRUE, connected |-> FALSE,
                              toolCount |-> 0, error |-> "Failed to fetch tools"]
                ELSE NoStatus]]

\* callMCPTool, lines 298-316: the tool is looked up in the merged list, its
\* server in the map.
Route(task, map, trs) ==
  LET listed == task.tools
      hits == { k \in 1..Len(listed) : listed[k].name = task.toolName }
  IN IF hits = {}
     THEN Done(task, "ToolNotFound")
     ELSE LET tool == listed[CHOOSE k \in hits : \A j \in hits : k <= j]
          IN IF \E i \in 1..Len(map) : map[i].name = tool.serverName
             THEN InvokeStage(task,
                    map[CHOOSE i \in 1..Len(map) : map[i].name = tool.serverName].tid,
                    trs)
             ELSE Done(task, "ServerNotConnected")

\* The fetches have all settled with the given outcomes (kept in `fetched`):
\* getMCPTools returns or throws, callMCPTool goes on to route the call.
Listed(task, map, trs, outcomes) ==
  LET listed == ListResult([task EXCEPT !.fetched = outcomes], map, outcomes)
  IN IF task.op = "listTools" \/ listed.error # "none"
     THEN listed
     ELSE Route([listed EXCEPT !.error = "none"], map, trs)

\* getMCPTools, lines 196-213: the size check, then one tools/list fetch is
\* issued per entry of the map (live: the transport is open at that moment;
\* on a closed one send() throws at once).
FetchStage(task, map, trs) ==
  IF Len(map) = 0
  THEN Done(task, "NoServersConnected")
  ELSE LET snap == [i \in 1..Len(map) |->
                      [name |-> map[i].name, tid |-> map[i].tid,
                       live |-> Transport(trs, map[i].tid).st = "live"]]
           issued == [task EXCEPT !.pc = "fetching", !.snapshot = snap,
                                  !.attempts = IdleTask.attempts]
       IN IF \E i \in 1..Len(snap) : snap[i].live
          THEN issued
          ELSE Listed(issued, map, trs, [i \in 1..Len(snap) |-> "fail"])

\* result.reason.message (line 171) of an attempt that was rejected: the
\* Error thrown at line 87, or the one built at lines 130-134.
AttemptError(outcome) ==
  IF outcome = "rejected" THEN "Connection already in progress"
  ELSE "Failed to connect"

\* Promise.allSettled of line 157 has resolved: initMCPClient returns its
\* partition (lines 161-183); inside getMCPTools the result is dropped and
\* the function goes on at line 196.
AfterConnect(task, map, trs) ==
  IF task.op = "connectAll"
  THEN LET rejected == SelectSeq(configs, LAMBDA s : task.attempts[s] # "ok")
       IN [Done(task, "none") EXCEPT
             !.attempts = task.attempts,
             !.connected = SelectSeq(configs, LAMBDA s : task.attempts[s] = "ok"),
             !.failed = [i \in 1..Len(rejected) |->
                           [name |-> rejected[i],
                            error |-> AttemptError(task.attempts[rejected[i]])]]]
  ELSE FetchStage(task, map, trs)

\* The guard of lines 86-88.
NoGuardMutant(s) == FALSE

InProgress(s) == s \in connectingServers

\* initMCPServer without the lookup of lines 80-83.
AlwaysConnectMutant(s) == IF InProgress(s) THEN "rejected" ELSE "pending"

\* initMCPServer up to its await (lines 78-117): how the attempt for s starts.
AttemptOf(s) ==
  IF MapHas(s) THEN "ok"
  ELSE IF InProgress(s) THEN "rejected"
  ELSE "pending"

\* initMCPClient, lines 156-159: initMCPServer is entered for every enabled
\* config in order; each runs to its await before the next is entered.
StartConnect(c, task) ==
  LET att == [s \in Servers |->
                IF \E i \in 1..Len(configs) : configs[i] = s
                THEN AttemptOf(s) ELSE "none"]
      newSrv == SelectSeq(configs, LAMBDA s : att[s] = "pending")
      used == { t.id : t \in transports }
      started == [task EXCEPT !.pc = "connecting", !.attempts = att]
  IN /\ transports' = transports \cup
          { [id |-> FreeId(used, i), server |-> newSrv[i],
             st |-> "handshaking", owner |-> c] : i \in 1..Len(newSrv) }
     /\ connectingServers' =
          connectingServers \cup { newSrv[i] : i \in 1..Len(newSrv) }
     /\ tasks' = [tasks EXCEPT ![c] =
                    IF Settled(started)
                    THEN AfterConnect(started, mcpServers, transports)
                    ELSE started]

\* The test of line 150.
SkipConfigCheckMutant == FALSE

NoneConfigured == Len(configs) = 0

\* initMCPClient()
ConnectAll(c) ==
  /\ CanStart(c)
  /\ IF NoneConfigured
     THEN /\ tasks' = [tasks EXCEPT ![c] =
                         Done(NewTask("connectAll"), "NoServersConfigured")]
          /\ UNCHANGED << transports, connectingServers >>
     ELSE StartConnect(c, NewTask("connectAll"))
  /\ UNCHANGED << configs, mcpServers >>

\* getMCPTools(), or callMCPTool without a server name (line 297), up to the
\* first await: the implicit initMCPClient when the map is empty.
Discover(c, task) ==
  IF Len(mcpServers) = 0
  THEN IF NoneConfigured
       THEN /\ tasks' = [tasks EXCEPT ![c] = Done(task, "NoServersConfigured")]
            /\ UNCHANGED << transports, connectingServers >>
       ELSE StartConnect(c, task)
  ELSE /\ tasks' = [tasks EXCEPT ![c] = FetchStage(task, mcpServers, transports)]
       /\ UNCHANGED << transports, connectingServers >>

ListTools(c) ==
  /\ CanStart(c)
  /\ Discover(c, NewTask("listTools"))
  /\ UNCHANGED << configs, mcpServers >>

\* The test of line 290: a server name was given.
AlwaysDiscoverMutant(serverName) == FALSE

ExplicitServer(serverName) == serverName # ""

\* selectedTools.find (Chat.tsx 1040) on the tools the chat holds, which are
\* those of a listTools() result (Chat.tsx 1299-1300): the serverName of the
\* first definition with the name ("" when there is none).
SelectedServer(tools, toolName) ==
  LET hits == { k \in 1..Len(tools) : tools[k].name = toolName }
  IN IF hits = {} THEN ""
     ELSE tools[CHOOSE k \in hits : \A j \in hits : k <= j].serverName

\* The definition a caller holds for a tool it calls: the one of the
\* listTools() result it got from its previous call, if that was one.
HeldDefinition(c, toolName) ==
  IF tasks[c].op = "listTools" /\ tasks[c].pc = "done"
  THEN SelectedServer(tasks[c].tools, toolName)
  ELSE ""

\* callMCPTool(toolName, args, serverName?)
CallTool(c, toolName, serverName) ==
  /\ CanStart(c)
  /\ LET task == [NewTask("callTool") EXCEPT !.toolName = toolName,
                                             !.serverName = serverName,
                                             !.definition = HeldDefinition(c, toolName)]
     IN IF ExplicitServer(serverName)
        THEN /\ tasks' = [tasks EXCEPT ![c] =
                            IF MapGet(serverName) = 0
                            THEN Done(task, "ServerNotConnected")
                            ELSE InvokeStage(task, MapGet(serverName), transports)]
             /\ UNCHANGED << transports, connectingServers >>
        ELSE Discover(c, task)
  /\ UNCHANGED << configs, mcpServers >>

\* The handshake tid has settled: the attempt of the call that started it is
\* recorded, and when it was that call's last pending one the call goes on.
Settle(tid, outcome, map, trs) ==
  LET owner == Transport(transports, tid).owner
      task == [tasks[owner] EXCEPT
                 !.attempts[Transport(transports, tid).server] = outcome]
  IN [tasks EXCEPT ![owner] =
        IF Settled(task) THEN AfterConnect(task, map, trs) ELSE task]

\* The finally block of initMCPServer (lines 135-137).
KeepMarkMutant(marked, s) == marked

Unmarked(marked, s) == marked \ {s}

\* client.connect(transport) resolves: lines 119-127 and the finally block.
HandshakeOK(tid) ==
  /\ \E t \in transports : t.id = tid /\ t.st = "handshaking"
  /\ LET t == Transport(transports, tid)
         map == MapSet(mcpServers, t.server, tid)
         trs == (transports \ {t}) \cup {[t EXCEPT !.st = "live"]}
     IN /\ mcpServers' = map
        /\ transports' = trs
        /\ connectingServers' = Unmarked(connectingServers, t.server)
        /\ tasks' = Settle(tid, "ok", map, trs)
  /\ UNCHANGED << configs, opsStarted >>

\* client.connect(transport) rejects: lines 128-137.
HandshakeFail(tid) ==
  /\ \E t \in transports : t.id = tid /\ t.st = "handshaking"
  /\ LET t == Transport(transports, tid)
         trs == transports \ {t}
     IN /\ transports' = trs
        /\ connectingServers' = Unmarked(connectingServers, t.server)
        /\ tasks' = Settle(tid, "fail", mcpServers, trs)
  /\ UNCHANGED << configs, mcpServers, opsStarted >>

\* Promise.allSettled of line 208 resolves with the given fetch outcomes.  A
\* fetch issued on a closed connection can only have failed, and of the
\* fetches that a completed close found pending (cut) at least one was still
\* unanswered and failed with it.
ListFinish(c, outcomes) ==
  /\ tasks[c].pc = "fetching"
  /\ \A i \in 1..Len(tasks[c].snapshot) :
       outcomes[i] = "ok" => tasks[c].snapshot[i].live
  /\ tasks[c].cut => \E i \in 1..Len(tasks[c].snapshot) : outcomes[i] = "fail"
  /\ tasks' = [tasks EXCEPT ![c] = Listed(tasks[c], mcpServers, transports, outcomes)]
  /\ UNCHANGED << configs, mcpServers, connectingServers, transports, opsStarted >>

\* client.callTool settles (lines 323-338).
CallFinish(c, ok) ==
  /\ tasks[c].pc = "calling"
  /\ ok => tasks[c].targetLive
  /\ tasks' = [tasks EXCEPT ![c] =
                 Done(tasks[c], IF ok THEN "none" ELSE "CallFailed")]
  /\ UNCHANGED << configs, mcpServers, connectingServers, transports, opsStarted >>

\* The transports in `gone` have run their close callbacks, which fails the
\* tool calls still pending on them.
CallsFailed(tks, gone) ==
  [d \in Callers |->
     IF tks[d].pc = "calling" /\ tks[d].target \in gone
     THEN [tks[d] EXCEPT !.targetLive = FALSE]
     ELSE tks[d]]

\* The close of the transports in `gone` has completed: a call still waiting
\* for fetches issued on them has at least one that was unanswered (cut).
AfterClose(gone) ==
  [d \in Callers |->
     IF tasks[d].pc = "fetching"
     THEN [tasks[d] EXCEPT !.cut =
             \/ tasks[d].cut
             \/ \E i \in 1..Len(tasks[d].snapshot) : tasks[d].snapshot[i].tid \in gone]
     ELSE CallsFailed(tasks, gone)[d]]

\* closeMCPConnection (lines 344-352): close() is called on the transport of
\* every entry.  When an open streamable transport is among them the
\* function waits for its DELETE request; otherwise nothing is awaited and
\* mcpServers.clear() follows at once.
CloseAll(c) ==
  /\ CanStart(c)
  /\ LET held == { mcpServers[i].tid : i \in 1..Len(mcpServers) }
         awaited == \E t \in transports :
                       t.id \in held /\ t.st = "live" /\ Streamable(t.server)
         dual == { t.id : t \in { u \in transports :
                                    u.id \in held /\ ~Streamable(u.server) } }
     IN IF awaited
        THEN /\ transports' =
                  { IF t.id \in held THEN [t EXCEPT !.st = "closed"] ELSE t :
                      t \in transports }
             /\ tasks' = [CallsFailed(tasks, dual) EXCEPT
                            ![c] = [NewTask("closeAll") EXCEPT !.pc = "closing"]]
             /\ UNCHANGED mcpServers
        ELSE /\ transports' = { t \in transports : t.id \notin held }
             /\ tasks' = [AfterClose(held) EXCEPT
                            ![c] = Done(NewTask("closeAll"), "none")]
             /\ mcpServers' = <<>>
  /\ UNCHANGED << configs, connectingServers >>

\* Promise.allSettled of line 349 resolves: mcpServers.clear().
CloseAllFinish(c) ==
  /\ tasks[c].pc = "closing"
  /\ mcpServers' = <<>>
  /\ transports' = { t \in transports : t.st # "closed" }
  /\ tasks' = [AfterClose({ t.id : t \in { u \in transports : u.st = "closed" } })
                 EXCEPT ![c] = Done(tasks[c], "none")]
  /\ UNCHANGED << configs, connectingServers, opsStarted >>


(***************************************************************************)
(* CONNECTION REGISTRY: properties                                         *)
(***************************************************************************)
Handshaking(s) == { t \in transports : t.server = s /\ t.st = "handshaking" }
Live(s) == { t \in transports : t.server = s /\ t.st = "live" }

\* C3: for every server name at most one handshake is in flight, the name is
\* in connectingServers exactly while it is, and an attempt that found one in
\* progress was rejected (ConnectionInProgress) without creating a transport:
\* the only handshake for that name belongs to another call.
C3_OneHandshakePerServer ==
  \A s \in Servers :
    /\ Cardinality(Handshaking(s)) <= 1
    /\ (s \in connectingServers) <=> (Handshaking(s) # {})
    /\ \A c \in Callers :
         /\ tasks[c].attempts[s] = "rejected" =>
              \A t \in Handshaking(s) : t.owner # c
         /\ tasks[c].attempts[s] = "pending" =>
              \E t \in Handshaking(s) : t.owner = c

\* C3 witness: one call's attempt for a server was rejected while another
\* call's handshake with that server is still in flight.
C3_Witness ==
  \E s \in Servers : \E c, d \in Callers :
    /\ c # d
    /\ tasks[c].attempts[s] = "rejected"
    /\ tasks[d].attempts[s] = "pending"
    /\ Cardinality(Handshaking(s)) = 1

\* C4: in every reachable state there is at most one live connection (a
\* transport started and not closed) per server name.
C4_AtMostOneLivePerServer ==
  \A s \in Servers : Cardinality(Live(s)) <= 1

\* The tools of a listTools result that are tagged with server s.
TaggedWith(task, s) == SelectSeq(task.tools, LAMBDA tl : tl.serverName = s)

\* C5: a listTools() call that fetched from several connected servers, one of
\* which failed, returns (does not throw); every server whose fetch succeeded
\* has its full declared tool list in the result, tagged with its name, and a
\* status {connected: true, toolCount: that number}; every server whose fetch
\* failed has no tools and the status {connected: false, toolCount: 0} with a
\* non-empty error; the servers fetched from are the ones with a status.
C5_PartialFailureIsolated ==
  \A c \in Callers :
    LET task == tasks[c]
        n == Len(task.snapshot)
    IN (/\ task.op = "listTools" /\ task.pc = "done"
        /\ n >= 2
        /\ \E i \in 1..n : task.fetched[i] = "fail")
       =>
       /\ task.error = "none"
       /\ \A s \in Servers :
            task.statuses[s].present <=> \E i \in 1..n : task.snapshot[i].name = s
       /\ \A i \in 1..n :
            LET s == task.snapshot[i].name
            IN IF task.fetched[i] = "ok"
               THEN /\ [k \in 1..Len(TaggedWith(task, s)) |-> TaggedWith(task, s)[k].name]
                         = DeclaredTools[s]
                    /\ task.statuses[s].connected
                    /\ task.statuses[s].toolCount = Len(TaggedWith(task, s))
               ELSE /\ TaggedWith(task, s) = <<>>
                    /\ ~task.statuses[s].connected
                    /\ task.statuses[s].toolCount = 0
                    /\ task.statuses[s].error # ""

Declares(s, toolName) ==
  \E k \in 1..Len(DeclaredTools[s]) : DeclaredTools[s][k] = toolName

\* C6: a callTool without a server name invokes the tool only on a server
\* that declares it, and when it fails with ToolNotFound nothing was invoked
\* and no server whose tool list was fetched declares the tool.
C6_RoutedToDeclaringServer ==
  \A c \in Callers :
    LET task == tasks[c]
    IN (task.op = "callTool" /\ task.serverName = "") =>
         /\ task.invoked # "" => Declares(task.invoked, task.toolName)
         /\ task.error = "ToolNotFound" =>
              /\ task.invoked = ""
              /\ \A i \in 1..Len(task.snapshot) :
                   task.fetched[i] = "ok" =>
                     ~Declares(task.snapshot[i].name, task.toolName)

\* C12: with at least one server configured, a listTools() call for which
\* every server failed (no connect attempt succeeded, or every tools/list
\* fetch failed) returns, does not throw: an empty tool list and a status
\* {connected: false} for every server it fetched from.
C12_AllFailedReportedByStatus ==
  \A c \in Callers :
    LET task == tasks[c]
    IN (/\ task.op = "listTools" /\ task.pc = "done"
        /\ Len(configs) >= 1
        /\ \A i \in 1..Len(task.fetched) : task.fetched[i] = "fail")
       =>
       /\ task.error = "none"
       /\ task.tools = <<>>
       /\ \A i \in 1..Len(task.snapshot) :
            /\ task.statuses[task.snapshot[i].name].present
            /\ ~task.statuses[task.snapshot[i].name].connected

\* The names in a sequence of names, and in a sequence of failed entries.
Names(seq) == { seq[i] : i \in 1..Len(seq) }
FailedNames(seq) == { seq[i].name : i \in 1..Len(seq) }
Configured == Names(configs)

\* C13: when connectAll() has returned, the connect attempt of every
\* configured (enabled) server has settled, none is still handshaking; every
\* configured server is in exactly one of connected and failed, in connected
\* exactly when its attempt succeeded, and every failed entry carries an
\* error message.
C13_ConnectAllPartition ==
  \A c \in Callers :
    LET task == tasks[c]
    IN (task.op = "connectAll" /\ task.pc = "done" /\ task.error = "none")
       =>
       /\ ~ \E t \in transports : t.owner = c /\ t.st = "handshaking"
       /\ \A s \in Configured : task.attempts[s] \in {"ok", "fail", "rejected"}
       /\ Names(task.connected) \cup FailedNames(task.failed) = Configured
       /\ Names(task.connected) \cap FailedNames(task.failed) = {}
       /\ Len(task.connected) + Len(task.failed) = Len(configs)
       /\ \A s \in Configured :
            s \in Names(task.connected) <=> task.attempts[s] = "ok"
       /\ \A i \in 1..Len(task.failed) : task.failed[i].error # ""

\* connectAll() has returned with one server connected and the other failed.
C13_Witness ==
  \E c \in Callers :
    /\ tasks[c].op = "connectAll" /\ tasks[c].pc = "done"
    /\ tasks[c].connected # <<>> /\ tasks[c].failed # <<>>
    /\ \E i \in 1..Len(tasks[c].failed) : tasks[c].attempts[tasks[c].failed[i].name] = "fail"

\* The step is one of connectAll() called by c: the call itself, or the
\* settling of a handshake it started.
ConnectAllStep(c) == tasks'[c].op = "connectAll" /\ tasks'[c] # tasks[c]

\* c calls connectAll() in this step.
ConnectAllCalled(c) == ConnectAllStep(c) /\ tasks[c].pc # "connecting"

\* C14: no step of connectAll() removes, replaces or closes a registry
\* entry; a call of connectAll() starts no handshake for a server that is in
\* the registry and reports it as connected; a call made when every
\* configured server is in the registry leaves the registry as it was.
C14_ConnectAllAdditive ==
  [][\A c \in Callers :
       /\ ConnectAllStep(c) =>
            \A i \in 1..Len(mcpServers) :
              /\ Len(mcpServers') >= i /\ mcpServers'[i] = mcpServers[i]
              /\ Transport(transports, mcpServers[i].tid) \in transports'
       /\ ConnectAllCalled(c) =>
            \A s \in Configured :
              MapHas(s) =>
                /\ ~ \E t \in transports' \ transports : t.server = s
                /\ tasks'[c].attempts[s] = "ok"
                /\ tasks'[c].pc = "done" => s \in Names(tasks'[c].connected)
       /\ (ConnectAllCalled(c) /\ \A s \in Configured : MapHas(s)) =>
            /\ mcpServers' = mcpServers /\ transports' = transports
            /\ connectingServers' = connectingServers
            /\ tasks'[c].pc = "done" /\ tasks'[c].failed = <<>>
    ]_regVars

\* Two calls were made; connectAll() by c has returned reporting as connected
\* a server whose registry entry was made by the other caller's call.
C14_Witness ==
  \E c \in Callers :
    /\ opsStarted = 2
    /\ tasks[c].op = "connectAll" /\ tasks[c].pc = "done"
    /\ \E i \in 1..Len(mcpServers) :
         /\ mcpServers[i].name \in Names(tasks[c].connected)
         /\ Transport(transports, mcpServers[i].tid).owner # c
         /\ Transport(transports, mcpServers[i].tid).st = "live"

\* closeAll() called by c returns in this step.
CloseAllReturns(c) ==
  /\ tasks'[c].op = "closeAll" /\ tasks'[c].pc = "done"
  /\ tasks[c] # tasks'[c]

\* C15: when closeAll() returns the registry is empty, and close() has been
\* called on the transport of every connection it removed from the registry:
\* none of them is still open.
C15_CloseAllClosesEveryEntry ==
  [][\A c \in Callers :
       CloseAllReturns(c) =>
         /\ mcpServers' = <<>>
         /\ \A i \in 1..Len(mcpServers) :
              ~ \E t \in transports' :
                  t.id = mcpServers[i].tid /\ t.st = "live"
    ]_regVars

\* c calls callTool with a server name in this step.
ExplicitCallBy(c) ==
  /\ tasks[c].pc \in { "idle", "done" }
  /\ tasks'[c] # tasks[c]
  /\ tasks'[c].op = "callTool" /\ tasks'[c].serverName # ""

\* C31: a callTool with a server name starts no handshake, changes neither
\* the registry nor the in-progress set and fetches no tool list; when the
\* name has an entry the tool is invoked on the connection of that entry and
\* on no other, and when it has none the call fails with ServerNotConnected
\* and nothing is invoked.
C31_ExplicitServerRouting ==
  [][\A c \in Callers :
       ExplicitCallBy(c) =>
         /\ transports' = transports
         /\ mcpServers' = mcpServers
         /\ connectingServers' = connectingServers
         /\ tasks'[c].snapshot = <<>> /\ tasks'[c].fetched = <<>>
         /\ \A s \in Servers : tasks'[c].attempts[s] = "none"
         /\ \A d \in Callers : d # c => tasks'[d] = tasks[d]
         /\ IF MapHas(tasks'[c].serverName)
            THEN /\ tasks'[c].invoked = tasks'[c].serverName
                 /\ tasks'[c].error # "ServerNotConnected"
                 /\ tasks'[c].pc = "calling" =>
                      tasks'[c].target = MapGet(tasks'[c].serverName)
            ELSE /\ tasks'[c].pc = "done"
                 /\ tasks'[c].error = "ServerNotConnected"
                 /\ tasks'[c].invoked = ""
    ]_regVars

\* C31 witness: a callTool naming a configured server that has no entry
\* failed with ServerNotConnected while another server was connected;
\* nothing was invoked and no handshake is in flight.
C31_Witness ==
  \E c \in Callers :
    /\ tasks[c].op = "callTool" /\ tasks[c].serverName = "tavily"
    /\ tasks[c].pc = "done" /\ tasks[c].error = "ServerNotConnected"
    /\ tasks[c].invoked = ""
    /\ "tavily" \in Configured /\ ~MapHas("tavily") /\ MapHas("local")
    /\ connectingServers = {}

\* C32: with no server configured every connectAll() and every listTools()
\* call fails with NoServersConfigured as soon as it is made, no transport
\* is created, no name is marked in progress and the registry stays empty.
C32_NoServersConfigured ==
  Len(configs) = 0 =>
    /\ transports = {} /\ mcpServers = <<>> /\ connectingServers = {}
    /\ \A c \in Callers :
         tasks[c].op \in { "connectAll", "listTools" } =>
           /\ tasks[c].pc = "done"
           /\ tasks[c].error = "NoServersConfigured"
           /\ tasks[c].connected = <<>> /\ tasks[c].tools = <<>>

\* C32 witness: with no server configured two calls were made, the last a
\* listTools() call, which failed with NoServersConfigured.
C32_Witness ==
  /\ Len(configs) = 0 /\ opsStarted >= 2
  /\ \E c \in Callers :
       /\ tasks[c].op = "listTools" /\ tasks[c].pc = "done"
       /\ tasks[c].error = "NoServersConfigured"

\* C33: a listTools() call that issued its fetches returns, and its result
\* is the one the fetches give for the servers they were issued to: the
\* tools tagged with a server are the tools of the fetch issued to that
\* server when it succeeded and none otherwise, and the servers with a
\* status are the servers fetched from, connected exactly when the fetch
\* succeeded.
C33_OutcomesAttributedToFetchedServer ==
  \A c \in Callers :
    LET task == tasks[c]
        n == Len(task.snapshot)
    IN (task.op = "listTools" /\ task.pc = "done" /\ n >= 1) =>
         /\ task.error = "none"
         /\ \A s \in Servers :
              task.statuses[s].present <=> \E i \in 1..n : task.snapshot[i].name = s
         /\ \A i \in 1..n :
              LET s == task.snapshot[i].name
              IN /\ [k \in 1..Len(TaggedWith(task, s)) |-> TaggedWith(task, s)[k].name]
                      = IF task.fetched[i] = "ok" THEN DeclaredTools[s] ELSE <<>>
                 /\ task.statuses[s].connected <=> task.fetched[i] = "ok"

\* C34: every live transport (started, close() not called on it) that the
\* registry created is the transport of an entry of the registry map.
C34_NoLeakedConnection ==
  \A t \in transports :
    t.st = "live" => \E i \in 1..Len(mcpServers) : mcpServers[i].tid = t.id

\* The handshakes with server s that settle in this step.
SettledNow(s) == { t \in Handshaking(s) : ~ \E u \in transports' : u.id = t.id /\ u.st = "handshaking" }

\* C38: in every state no server name is both marked in progress and in the
\* registry map, and a name is marked exactly while a handshake for it is in
\* flight; the step in which the handshake settles, with success or failure,
\* removes the mark; a call whose attempt for a marked name is rejected
\* leaves the mark, and a connectAll() called when a configured name is
\* neither marked nor in the map starts a handshake for it.
C38_MarksFollowHandshakes ==
  /\ [](\A s \in Servers :
          /\ ~(s \in connectingServers /\ MapHas(s))
          /\ (s \in connectingServers) <=> (Handshaking(s) # {}))
  /\ [][\A s \in Servers :
          /\ SettledNow(s) # {} => s \notin connectingServers'
          /\ \A c \in Callers :
               /\ (tasks[c].attempts[s] # "rejected" /\ tasks'[c].attempts[s] = "rejected") =>
                    (s \in connectingServers /\ s \in connectingServers'
                     /\ Handshaking(s) \subseteq transports')
               /\ (ConnectAllCalled(c) /\ s \in Configured
                     /\ s \notin connectingServers /\ ~MapHas(s)) =>
                    (s \in connectingServers'
                     /\ \E t \in transports' \ transports : t.server = s /\ t.owner = c)
     ]_regVars

\* C38 witness: the handshake of one call with server r has failed while
\* its handshake with s is in flight; a later connectAll() of another caller
\* was rejected for s, whose mark is still set, and has a new handshake with
\* r in flight; neither name is in the map.
C38_Witness ==
  \E s, r \in Servers : \E c, d \in Callers :
    /\ c # d /\ s # r
    /\ tasks[c].attempts[s] = "pending" /\ tasks[c].attempts[r] = "fail"
    /\ tasks[d].op = "connectAll"
    /\ tasks[d].attempts[s] = "rejected" /\ tasks[d].attempts[r] = "pending"
    /\ connectingServers = { s, r }
    /\ ~MapHas(s) /\ ~MapHas(r)

\* C36: a tool call made without a server name (Chat.tsx 1084) by a caller
\* that holds a definition of the tool, taken from the listTools() result of
\* its previous call, is issued on the server that definition names.
C36_RunsOnServerOfDefinition ==
  \A c \in Callers :
    (/\ tasks[c].op = "callTool" /\ tasks[c].serverName = ""
     /\ tasks[c].definition # "" /\ tasks[c].invoked # "") =>
      tasks[c].invoked = tasks[c].definition

(***************************************************************************)
(* TRANSPORTS (services/mcpTransport, services/streamableHttpTransport):   *)
(* one transport object of either class, driven by its caller and by the   *)
(* server.                                                                 *)
(***************************************************************************)
Kinds == { "dual", "streamable" }
Methods == { "initialize", "tools/list" }
\* Mcp-Session-Id header values of a response; "" is no header.
SessionHeaders == { "", "s1", "s2" }
\* Data of an endpoint event: empty, or a path.
EndpointData == { "", "/mcp/messages?sessionId=1" }

\* The texts a server sends that are valid JSON, with the message JSON.parse
\* makes of each; any other text makes JSON.parse throw.
JsonFrames == [t \in { "{id:1}", "{id:2}" } |-> IF t = "{id:1}" THEN 1 ELSE 2]
\* The data of an SSE event.
EventData == { "", "ping", "{bad", "{id:1}" }
\* Content-Type headers of a POST response.
ContentTypes == { "application/json", "text/event-stream", "text/plain" }
\* The body of an application/json response.
JsonBodies == { "{id:1}", "{bad" }
\* A line of a text/event-stream body: what it starts with and the rest.
Line(prefix, text) == [prefix |-> prefix, text |-> text]
Lines == { Line("data: ", t) : t \in DOMAIN JsonFrames \cup { "{bad" } }
           \cup { Line("event: ", "message") }

RECURSIVE SeqsUpTo(_, _)
SeqsUpTo(S, n) ==
  IF n = 0 THEN { <<>> }
  ELSE LET shorter == SeqsUpTo(S, n - 1)
       IN shorter \cup { Append(s, x) : s \in shorter, x \in S }

VARIABLES
  kind,              \* the class of the transport object
  isStarted,
  isClosed,
  sessionId,         \* StreamableHttpTransport.sessionId ("" is null)
  messagesEndpoint,  \* DualChannelTransport.messagesEndpoint ("" is null)
  eventSource,       \* the start() call whose EventSource the field holds (0 is null)
  startCalls,        \* start() calls: promise state, stream open, timer armed
  sends,             \* send() calls: what they did, and what was true then
  inflight,          \* POST requests (indexes of sends) not yet answered
  closeCalls,        \* close() calls: awaiting the DELETE or returned
  oncloseCalls,      \* times the registered close callback was invoked
  captures,          \* session ids taken from responses, with the request's method
  endpointSeen,      \* an endpoint event carrying a path has arrived
  calls,             \* start/send/close calls made and frames received (bounded)
  inbound,           \* frames received: SSE events, stream errors, response bodies
  delivered,         \* messages handed to the registered message callback
  onerrorCalls,      \* times the registered error callback was invoked
  deletes            \* Mcp-Session-Id headers of the DELETE requests issued

trVars == << kind, isStarted, isClosed, sessionId, messagesEndpoint, eventSource,
             startCalls, sends, inflight, closeCalls, oncloseCalls, captures,
             endpointSeen, calls, inbound, delivered, onerrorCalls, deletes >>

TrInit ==
  /\ kind \in Kinds
  /\ isStarted = FALSE /\ isClosed = FALSE
  /\ sessionId = "" /\ messagesEndpoint = "" /\ eventSource = 0
  /\ startCalls = <<>> /\ sends = <<>> /\ inflight = {}
  /\ closeCalls = <<>> /\ oncloseCalls = 0 /\ captures = <<>>
  /\ endpointSeen = FALSE /\ calls = 0
  /\ inbound = <<>> /\ delivered = <<>> /\ onerrorCalls = 0 /\ deletes = <<>>

CanCall ==
  /\ calls < MaxCalls
  /\ calls' = calls + 1

\* The server sends n frames.
Receives(n) ==
  /\ calls + n <= MaxCalls
  /\ calls' = calls + n

\* Some start() call has completed (returned, resolved, thrown or rejected).
StartDone == \E i \in 1..Len(startCalls) : startCalls[i].st # "pending"

StartCall(st, open, timer) == [st |-> st, open |-> open, timer |-> timer]

\* What a send() call did (result), the Mcp-Session-Id header of its POST,
\* what was true when it was made, and the status and Content-Type of the
\* response once it has arrived.
SendCall(method, result, header) ==
  [method |-> method, result |-> result, header |-> header,
   captured |-> [i \in 1..Len(captures) |-> captures[i].id],
   endpointSeen |-> endpointSeen, startDone |-> StartDone,
   status |-> "", contentType |-> ""]

\* A frame received: an event ("event") or an error ("error") of the stream
\* of start() call src, or in the response to send() call src the body
\* ("json") or a line of it (via is what the line starts with).
Frame(src, via, data) == [src |-> src, via |-> via, data |-> data]

\* One invocation of the message callback: by a handler of the SSE stream
\* (src 0) or by send() call src.
Delivery(src, msg) == [src |-> src, msg |-> msg]

\* The catch blocks around JSON.parse (mcpTransport.ts 146-151,
\* streamableHttpTransport.ts 80-84 and 181-183) only log: n invocations of
\* the error callback stay n.
ReportParseErrorMutant(n) == n + 1

OnParseError(n) == n

\* JSON.parse(data) followed by this.onmessage(message), inside try.
ParseAndDeliver(src, data) ==
  IF data \in DOMAIN JsonFrames THEN << Delivery(src, JsonFrames[data]) >> ELSE << >>

\* The error callback after a frame was handled.
AfterFrame(skipped, data, n) ==
  IF ~skipped /\ data \notin DOMAIN JsonFrames THEN OnParseError(n) ELSE n

(***************************************************************************)
(* DualChannelTransport                                                    *)
(***************************************************************************)
\* start(), lines 39-56 and 179-184: a new EventSource replaces the field, its
\* listeners and the 10 s timer belong to this call's promise.
DCStart ==
  /\ kind = "dual"
  /\ CanCall
  /\ IF isStarted
     THEN /\ startCalls' = Append(startCalls, StartCall("returned", FALSE, FALSE))
          /\ UNCHANGED eventSource
     ELSE IF isClosed
     THEN /\ startCalls' = Append(startCalls, StartCall("threw", FALSE, FALSE))
          /\ UNCHANGED eventSource
     ELSE /\ startCalls' = Append(startCalls, StartCall("pending", TRUE, TRUE))
          /\ eventSource' = Len(startCalls) + 1
  /\ UNCHANGED << kind, isStarted, isClosed, sessionId, messagesEndpoint, sends,
                  inflight, closeCalls, oncloseCalls, captures, endpointSeen,
                  inbound, delivered, onerrorCalls, deletes >>

\* reject()/resolve() of the promise of start() call i: a settled promise
\* stays as it is.
Settles(i, st) ==
  IF startCalls[i].st = "pending"
  THEN [startCalls EXCEPT ![i].st = st]
  ELSE startCalls

\* The 'endpoint' listener of start() call i (lines 58-117).
DCEndpoint(i, data) ==
  /\ kind = "dual"
  /\ i \in 1..Len(startCalls) /\ startCalls[i].open
  /\ IF data = ""
     THEN /\ startCalls' = Settles(i, "rejected")
          /\ UNCHANGED << messagesEndpoint, isStarted, endpointSeen >>
     ELSE /\ messagesEndpoint' = data
          /\ isStarted' = TRUE
          /\ endpointSeen' = TRUE
          /\ startCalls' = Settles(i, "resolved")
  /\ UNCHANGED << kind, isClosed, sessionId, eventSource, sends, inflight,
                  closeCalls, oncloseCalls, captures, calls,
                  inbound, delivered, onerrorCalls, deletes >>

\* handleMessage (lines 124-152): empty data is skipped, a text that is not
\* JSON is dropped in the catch block.
handleMessage(data) == IF data = "" THEN << >> ELSE ParseAndDeliver(0, data)

\* A message event on the stream of start() call i: handleMessage is
\* registered for it twice, with addEventListener (line 155) and as the
\* onmessage attribute (line 158), and both registrations are invoked.
DCMessage(i, data) ==
  /\ kind = "dual"
  /\ i \in 1..Len(startCalls) /\ startCalls[i].open
  /\ Receives(1)
  /\ inbound' = Append(inbound, Frame(i, "event", data))
  /\ delivered' = delivered \o handleMessage(data) \o handleMessage(data)
  /\ onerrorCalls' = AfterFrame(data = "", data, AfterFrame(data = "", data, onerrorCalls))
  /\ UNCHANGED << kind, isStarted, isClosed, sessionId, messagesEndpoint,
                  eventSource, startCalls, sends, inflight, closeCalls,
                  oncloseCalls, captures, endpointSeen, deletes >>

\* The test of eventSource.onerror, line 167.
AlwaysCallbackMutant == FALSE

BeforeHandshake == ~isStarted

\* eventSource.onerror of start() call i (lines 161-176): the promise is
\* rejected before the handshake, the error callback invoked after it.
DCStreamError(i) ==
  /\ kind = "dual"
  /\ i \in 1..Len(startCalls) /\ startCalls[i].open
  /\ Receives(1)
  /\ inbound' = Append(inbound, Frame(i, "error", ""))
  /\ IF BeforeHandshake
     THEN /\ startCalls' = Settles(i, "HandshakeFailed")
          /\ UNCHANGED onerrorCalls
     ELSE /\ onerrorCalls' = onerrorCalls + 1
          /\ UNCHANGED startCalls
  /\ UNCHANGED << kind, isStarted, isClosed, sessionId, messagesEndpoint,
                  eventSource, sends, inflight, closeCalls, oncloseCalls,
                  captures, endpointSeen, delivered, deletes >>

\* The timer of start() call i fires (lines 179-183); the timers all run
\* 10 s, so they fire in the order they were armed.
DCTimeout(i) ==
  /\ kind = "dual"
  /\ i \in 1..Len(startCalls) /\ startCalls[i].timer
  /\ \A j \in 1..(i - 1) : ~startCalls[j].timer
  /\ startCalls' = [(IF ~isStarted THEN Settles(i, "HandshakeTimeout") ELSE startCalls)
                      EXCEPT ![i].timer = FALSE]
  /\ UNCHANGED << kind, isStarted, isClosed, sessionId, messagesEndpoint,
                  eventSource, sends, inflight, closeCalls, oncloseCalls,
                  captures, endpointSeen, calls,
                  inbound, delivered, onerrorCalls, deletes >>

\* The guard of send(), lines 191-193.
AlwaysReadyMutant == FALSE

NotReady == ~isStarted \/ messagesEndpoint = ""

\* send() up to the fetch of sendRequest (lines 190-222).
DCSend(method) ==
  /\ kind = "dual"
  /\ CanCall
  /\ IF NotReady
     THEN sends' = Append(sends, SendCall(method, "NotStarted", "")) /\ UNCHANGED inflight
     ELSE IF isClosed
     THEN sends' = Append(sends, SendCall(method, "Closed", "")) /\ UNCHANGED inflight
     ELSE /\ sends' = Append(sends, SendCall(method, "posted", ""))
          /\ inflight' = inflight \cup { Len(sends) + 1 }
  /\ UNCHANGED << kind, isStarted, isClosed, sessionId, messagesEndpoint,
                  eventSource, startCalls, closeCalls, oncloseCalls, captures,
                  endpointSeen, inbound, delivered, onerrorCalls, deletes >>

\* The test of response.ok (mcpTransport.ts 227, streamableHttpTransport.ts
\* 139).
AnyStatusMutant(ok) == TRUE

Accepted(ok) == ok

StatusOf(ok) == IF ok THEN "2xx" ELSE "non-2xx"

\* The fetch of sendRequest settles (lines 215-235): send() returns or
\* throws; the body of the response is not read.
DCPostDone(p, ok) ==
  /\ kind = "dual"
  /\ p \in inflight
  /\ inflight' = inflight \ {p}
  /\ sends' = [sends EXCEPT ![p].result = IF Accepted(ok) THEN "sent" ELSE "SendFailed",
                            ![p].status = StatusOf(ok)]
  /\ UNCHANGED << kind, isStarted, isClosed, sessionId, messagesEndpoint,
                  eventSource, startCalls, closeCalls, oncloseCalls, captures,
                  endpointSeen, calls, inbound, delivered, onerrorCalls, deletes >>

\* The guard of close(), lines 242-244.
CloseAgainMutant == FALSE

AlreadyClosed == isClosed

CloseCall(st, early, overlapped) == [st |-> st, early |-> early, overlapped |-> overlapped]

\* A close() call is awaiting its DELETE request.
Awaiting == \E i \in 1..Len(closeCalls) : closeCalls[i].st = "awaiting"

\* close(), lines 241-257.
DCClose ==
  /\ kind = "dual"
  /\ CanCall
  /\ IF AlreadyClosed
     THEN /\ closeCalls' = Append(closeCalls, CloseCall("returned", TRUE, FALSE))
          /\ UNCHANGED << isClosed, eventSource, startCalls, oncloseCalls >>
     ELSE /\ isClosed' = TRUE
          /\ eventSource' = 0
          /\ startCalls' = IF eventSource = 0 THEN startCalls
                           ELSE [startCalls EXCEPT ![eventSource].open = FALSE]
          /\ oncloseCalls' = oncloseCalls + 1
          /\ closeCalls' = Append(closeCalls, CloseCall("returned", FALSE, FALSE))
  /\ UNCHANGED << kind, isStarted, sessionId, messagesEndpoint, sends, inflight,
                  captures, endpointSeen, inbound, delivered, onerrorCalls, deletes >>

(***************************************************************************)
(* StreamableHttpTransport                                                 *)
(***************************************************************************)
\* start(), lines 37-99: opens the EventSource and is started at once.
SHStart ==
  /\ kind = "streamable"
  /\ CanCall
  /\ IF isStarted
     THEN /\ startCalls' = Append(startCalls, StartCall("returned", FALSE, FALSE))
          /\ UNCHANGED << eventSource, isStarted >>
     ELSE IF isClosed
     THEN /\ startCalls' = Append(startCalls, StartCall("threw", FALSE, FALSE))
          /\ UNCHANGED << eventSource, isStarted >>
     ELSE /\ startCalls' = Append(startCalls, StartCall("returned", TRUE, FALSE))
          /\ eventSource' = Len(startCalls) + 1
          /\ isStarted' = TRUE
  /\ UNCHANGED << kind, isClosed, sessionId, messagesEndpoint, sends, inflight,
                  closeCalls, oncloseCalls, captures, endpointSeen,
                  inbound, delivered, onerrorCalls, deletes >>

\* Line 57: the data the onmessage handler skips before parsing.
Skipped(data) == data \in { "", "ping" }

\* eventSource.onmessage (lines 54-85) for an event on the open stream.
SHMessage(data) ==
  /\ kind = "streamable"
  /\ eventSource # 0 /\ startCalls[eventSource].open
  /\ Receives(1)
  /\ inbound' = Append(inbound, Frame(eventSource, "event", data))
  /\ delivered' = delivered \o (IF Skipped(data) THEN << >> ELSE ParseAndDeliver(0, data))
  /\ onerrorCalls' = AfterFrame(Skipped(data), data, onerrorCalls)
  /\ UNCHANGED << kind, isStarted, isClosed, sessionId, messagesEndpoint,
                  eventSource, startCalls, sends, inflight, closeCalls,
                  oncloseCalls, captures, endpointSeen, deletes >>

\* eventSource.onerror (lines 88-96).
SHStreamError ==
  /\ kind = "streamable"
  /\ eventSource # 0 /\ startCalls[eventSource].open
  /\ Receives(1)
  /\ inbound' = Append(inbound, Frame(eventSource, "error", ""))
  /\ onerrorCalls' = onerrorCalls + 1
  /\ UNCHANGED << kind, isStarted, isClosed, sessionId, messagesEndpoint,
                  eventSource, startCalls, sends, inflight, closeCalls,
                  oncloseCalls, captures, endpointSeen, delivered, deletes >>

\* send() up to its fetch (lines 104-136): the header is added when a
\* session id is held.
SHSend(method) ==
  /\ kind = "streamable"
  /\ CanCall
  /\ IF ~isStarted
     THEN sends' = Append(sends, SendCall(method, "NotStarted", "")) /\ UNCHANGED inflight
     ELSE IF isClosed
     THEN sends' = Append(sends, SendCall(method, "Closed", "")) /\ UNCHANGED inflight
     ELSE /\ sends' = Append(sends, SendCall(method, "posted", sessionId))
          /\ inflight' = inflight \cup { Len(sends) + 1 }
  /\ UNCHANGED << kind, isStarted, isClosed, sessionId, messagesEndpoint,
                  eventSource, startCalls, closeCalls, oncloseCalls, captures,
                  endpointSeen, inbound, delivered, onerrorCalls, deletes >>

\* Line 144: the requests whose response may carry the session id.
AnyMethodMutant(method) == TRUE

IsInitializeRequest(method) == method = "initialize"

\* Lines 139-152: the response whose Mcp-Session-Id header is taken.
Captured(ok, method, header) ==
  Accepted(ok) /\ IsInitializeRequest(method) /\ header # ""

\* Lines 157 and 166: the bodies send() reads.
BodyRead(contentType) == contentType \in { "application/json", "text/event-stream" }

\* The fetch of send() settles (lines 133-166): ok is response.ok, header
\* the Mcp-Session-Id header of the response, contentType its Content-Type.
\* send() throws, returns, or awaits the body.
SHResponse(p, ok, header, contentType) ==
  /\ kind = "streamable"
  /\ p \in inflight
  /\ sends[p].result = "posted"
  /\ sends' = [sends EXCEPT ![p].status = StatusOf(ok),
                            ![p].contentType = IF Accepted(ok) THEN contentType ELSE "",
                            ![p].result = IF ~Accepted(ok) THEN "SendFailed"
                                          ELSE IF BodyRead(contentType) THEN "reading"
                                          ELSE "sent"]
  /\ inflight' = IF Accepted(ok) /\ BodyRead(contentType) THEN inflight ELSE inflight \ {p}
  /\ IF Captured(ok, sends[p].method, header)
     THEN /\ sessionId' = header
          /\ captures' = Append(captures, [id |-> header, method |-> sends[p].method])
     ELSE UNCHANGED << sessionId, captures >>
  /\ UNCHANGED << kind, isStarted, isClosed, messagesEndpoint, eventSource,
                  startCalls, closeCalls, oncloseCalls, endpointSeen, calls,
                  inbound, delivered, onerrorCalls, deletes >>

\* Lines 171-186: the lines of the body starting with "data: ", each parsed
\* in its own try block.
FirstLineOnlyMutant(p, lines) ==
  IF lines = << >> \/ Head(lines).prefix # "data: " THEN << >>
  ELSE ParseAndDeliver(p, Head(lines).text)

RECURSIVE ParseLines(_, _)
ParseLines(p, lines) ==
  IF lines = << >> THEN << >>
  ELSE (IF Head(lines).prefix = "data: "
        THEN ParseAndDeliver(p, Head(lines).text) ELSE << >>)
       \o ParseLines(p, Tail(lines))

RECURSIVE ParseErrors(_, _)
ParseErrors(lines, n) ==
  IF lines = << >> THEN n
  ELSE ParseErrors(Tail(lines),
                   AfterFrame(Head(lines).prefix # "data: ", Head(lines).text, n))

\* response.json() of an application/json response settles (lines 159-165):
\* the message is delivered, or send() throws what response.json() threw.
SHJsonBody(p, body) ==
  /\ kind = "streamable"
  /\ p \in inflight
  /\ sends[p].result = "reading" /\ sends[p].contentType = "application/json"
  /\ Receives(1)
  /\ inbound' = Append(inbound, Frame(p, "json", body))
  /\ inflight' = inflight \ {p}
  /\ delivered' = delivered \o ParseAndDeliver(p, body)
  /\ sends' = [sends EXCEPT ![p].result = IF body \in DOMAIN JsonFrames
                                          THEN "sent" ELSE "BodyFailed"]
  /\ UNCHANGED << kind, isStarted, isClosed, sessionId, messagesEndpoint,
                  eventSource, startCalls, closeCalls, oncloseCalls, captures,
                  endpointSeen, onerrorCalls, deletes >>

\* response.text() of a text/event-stream response settles (lines 168-186).
SHStreamBody(p, lines) ==
  /\ kind = "streamable"
  /\ p \in inflight
  /\ sends[p].result = "reading" /\ sends[p].contentType = "text/event-stream"
  /\ Receives(Len(lines))
  /\ inbound' = inbound \o [i \in 1..Len(lines) |-> Frame(p, lines[i].prefix, lines[i].text)]
  /\ inflight' = inflight \ {p}
  /\ delivered' = delivered \o ParseLines(p, lines)
  /\ onerrorCalls' = ParseErrors(lines, onerrorCalls)
  /\ sends' = [sends EXCEPT ![p].result = "sent"]
  /\ UNCHANGED << kind, isStarted, isClosed, sessionId, messagesEndpoint,
                  eventSource, startCalls, closeCalls, oncloseCalls, captures,
                  endpointSeen, deletes >>

\* Lines 221-228 of close(): the EventSource is closed, the callback invoked.
SHTeardown ==
  /\ eventSource' = 0
  /\ startCalls' = IF eventSource = 0 THEN startCalls
                   ELSE [startCalls EXCEPT ![eventSource].open = FALSE]
  /\ oncloseCalls' = oncloseCalls + 1

\* The test of close(), line 208.
DeleteAlwaysMutant == TRUE

SessionEstablished == sessionId # ""

\* close() up to the fetch of the DELETE request (lines 200-215), or to its
\* end when no session id is held.
SHClose ==
  /\ kind = "streamable"
  /\ CanCall
  /\ IF isClosed
     THEN /\ closeCalls' = Append(closeCalls, CloseCall("returned", TRUE, Awaiting))
          /\ UNCHANGED << isClosed, eventSource, startCalls, oncloseCalls, deletes >>
     ELSE /\ isClosed' = TRUE
          /\ IF SessionEstablished
             THEN /\ closeCalls' = Append(closeCalls, CloseCall("awaiting", FALSE, FALSE))
                  /\ deletes' = Append(deletes, sessionId)
                  /\ UNCHANGED << eventSource, startCalls, oncloseCalls >>
             ELSE /\ closeCalls' = Append(closeCalls, CloseCall("returned", FALSE, FALSE))
                  /\ SHTeardown
                  /\ UNCHANGED deletes
  /\ UNCHANGED << kind, isStarted, sessionId, messagesEndpoint, sends, inflight,
                  captures, endpointSeen, inbound, delivered, onerrorCalls >>

\* The DELETE request settles; a rejection is caught (lines 216-218).
SHDeleteDone(i, ok) ==
  /\ kind = "streamable"
  /\ i \in 1..Len(closeCalls) /\ closeCalls[i].st = "awaiting"
  /\ closeCalls' = [closeCalls EXCEPT ![i].st = "returned"]
  /\ SHTeardown
  /\ UNCHANGED << kind, isStarted, isClosed, sessionId, messagesEndpoint, sends,
                  inflight, captures, endpointSeen, calls,
                  inbound, delivered, onerrorCalls, deletes >>

(***************************************************************************)
(* TRANSPORTS: properties                                                  *)
(***************************************************************************)
\* The send() calls that issued a POST request.
Posted(i) == sends[i].result \in { "posted", "reading", "sent", "SendFailed", "BodyFailed" }

Last(seq) == IF seq = <<>> THEN "" ELSE seq[Len(seq)]
First(seq) == IF seq = <<>> THEN "" ELSE seq[1]

\* C8: on either transport the close callback is invoked at most once, and
\* exactly once when the close() calls made (one or more, also one made while
\* another awaits the DELETE request) have all returned; no close() call
\* throws.
C8_CloseCallbackOnce ==
  /\ oncloseCalls <= 1
  /\ \A i \in 1..Len(closeCalls) : closeCalls[i].st \in { "awaiting", "returned" }
  /\ (closeCalls # <<>> /\ ~Awaiting) => oncloseCalls = 1

\* C8 witness: a second close() was made while the first awaited its DELETE
\* request, both have returned and the callback ran once.
C8_Witness ==
  /\ Len(closeCalls) >= 2
  /\ \E i \in 1..Len(closeCalls) : closeCalls[i].overlapped
  /\ ~Awaiting
  /\ oncloseCalls = 1

\* C9 as stated: once a session id has been captured, every POST sent
\* afterwards carries that id (the first one captured), and before that none.
C9_FirstCapturedIdForever ==
  \A i \in 1..Len(sends) :
    (kind = "streamable" /\ Posted(i)) => sends[i].header = First(sends[i].captured)

\* C9: every POST carries the session id captured last before it was sent
\* (none before the first capture, which is no error: the POST is issued);
\* the id held is the one captured last, and only the response to an
\* initialize request is captured.
C9_LatestCapturedId ==
  /\ \A i \in 1..Len(sends) :
       (kind = "streamable" /\ Posted(i)) => sends[i].header = Last(sends[i].captured)
  /\ sessionId = Last([i \in 1..Len(captures) |-> captures[i].id])
  /\ \A i \in 1..Len(captures) : captures[i].method = "initialize"

\* C9 witness: two initialize responses carried different ids, and a POST
\* sent after the second carries the second; an earlier POST carried none.
C9_Witness ==
  /\ Len(captures) = 2 /\ captures[1].id # captures[2].id
  /\ \E i, j \in 1..Len(sends) :
       /\ Posted(i) /\ sends[i].header = ""
       /\ Posted(j) /\ Len(sends[j].captured) = 2 /\ sends[j].header = captures[2].id

\* C10: on the dual-channel transport a POST is issued only after an endpoint
\* event with a path has arrived, and a start() call resolves only then; on
\* both transports a send() made before any start() call has completed fails
\* with NotStarted and issues no POST.
C10_NoPostBeforeEndpoint ==
  /\ \A i \in 1..Len(sends) :
       /\ (kind = "dual" /\ Posted(i)) => sends[i].endpointSeen
       /\ ~sends[i].startDone => sends[i].result = "NotStarted"
  /\ \A i \in 1..Len(startCalls) :
       (kind = "dual" /\ startCalls[i].st \in { "resolved", "returned" }) => endpointSeen

\* C10 witness: on the dual-channel transport a send() made while start() was
\* waiting for the endpoint event failed with NotStarted, and one made after
\* start() resolved issued a POST.
C10_Witness ==
  /\ kind = "dual"
  /\ \E i, j \in 1..Len(sends) :
       /\ sends[i].result = "NotStarted" /\ ~sends[i].startDone
       /\ Posted(j)
  /\ \E i \in 1..Len(startCalls) : startCalls[i].st = "resolved"

\* C11: a start() call of the dual-channel transport that is pending always
\* eventually resolves or rejects (the 10 s timer of every call fires), also
\* when close() is called meanwhile.
C11_StartAlwaysSettles ==
  \A i \in 1..MaxCalls :
    (kind = "dual" /\ Len(startCalls) >= i /\ startCalls[i].st = "pending")
      ~> (Len(startCalls) >= i /\ startCalls[i].st # "pending")

\* The frames received in this step.
NewFrames == SubSeq(inbound', Len(inbound) + 1, Len(inbound'))

\* The start() calls that have failed.
StartFailures == { "HandshakeFailed", "HandshakeTimeout", "rejected" }

\* C26: an SSE error of the dual-channel transport before the endpoint event
\* fails the start() call of that stream with HandshakeFailed (a call that
\* has failed already stays failed) and does not invoke the error callback;
\* after the handshake it invokes the error callback once, fails no call and
\* leaves the transport started; in both phases no SSE connection is opened
\* or closed by it.
C26_StreamErrorsByPhase ==
  [][ \A i \in 1..Len(startCalls) :
        (kind = "dual" /\ NewFrames = << Frame(i, "error", "") >>) =>
          /\ eventSource' = eventSource
          /\ Len(startCalls') = Len(startCalls)
          /\ \A j \in 1..Len(startCalls) : startCalls'[j].open = startCalls[j].open
          /\ sends' = sends
          /\ IF ~endpointSeen
             THEN /\ onerrorCalls' = onerrorCalls
                  /\ startCalls'[i].st \in StartFailures
                  /\ startCalls[i].st = "pending" => startCalls'[i].st = "HandshakeFailed"
                  /\ ~isStarted'
             ELSE /\ onerrorCalls' = onerrorCalls + 1
                  /\ startCalls' = startCalls
                  /\ isStarted /\ isStarted'
    ]_trVars

\* C26 witness: one start() call failed with HandshakeFailed, and after a
\* later handshake a stream error was reported through the error callback.
C26_Witness ==
  /\ kind = "dual" /\ isStarted
  /\ \E i \in 1..Len(startCalls) : startCalls[i].st = "HandshakeFailed"
  /\ onerrorCalls = 1
  /\ Len(inbound) = 2 /\ inbound[2].via = "error"

\* C27: close() of the streamable-HTTP transport issues a DELETE request
\* carrying the session id held when a session id is held, and none
\* otherwise; no other step issues one, so there is at most one; while the
\* DELETE is awaited the SSE connection is open and the close callback has
\* not run; no close() call fails, and when all have returned the connection
\* is closed and the callback has run, whatever the DELETE's outcome.
C27_DeleteBeforeTeardown ==
  /\ [](kind = "streamable" =>
          /\ Len(deletes) <= 1
          /\ Awaiting =>
               /\ oncloseCalls = 0
               /\ eventSource # 0 => startCalls[eventSource].open
               /\ deletes # << >>
          /\ \A i \in 1..Len(closeCalls) : closeCalls[i].st \in { "awaiting", "returned" }
          /\ (closeCalls # << >> /\ ~Awaiting) => (oncloseCalls = 1 /\ eventSource = 0))
  /\ [][ kind = "streamable" =>
           IF ~isClosed /\ isClosed'
           THEN deletes' = IF sessionId # "" THEN Append(deletes, sessionId) ELSE deletes
           ELSE deletes' = deletes ]_trVars

\* C27 witness: close() was called with a session id held, its DELETE
\* carried the id, and after the DELETE settled the connection is closed
\* and the callback has run.
C27_Witness ==
  /\ kind = "streamable"
  /\ deletes # << >> /\ deletes[1] = sessionId /\ sessionId # ""
  /\ closeCalls # << >> /\ ~Awaiting
  /\ oncloseCalls = 1
  /\ \E i \in 1..Len(startCalls) : startCalls[i].st = "returned" /\ ~startCalls[i].open

\* The messages send() call p handed to the message callback.
DeliveredFrom(p) == SelectSeq(delivered, LAMBDA d : d.src = p)

\* The body of the response to send() call p, as received.
BodyOf(p) == SelectSeq(inbound, LAMBDA f : f.src = p /\ f.via \notin { "event", "error" })

\* The messages of the lines of a body that start with "data: " and hold
\* valid JSON, in body order.
MessagesOf(p) ==
  LET valid == SelectSeq(BodyOf(p), LAMBDA f : f.via = "data: " /\ f.data \in DOMAIN JsonFrames)
  IN [i \in 1..Len(valid) |-> Delivery(p, JsonFrames[valid[i].data])]

\* send() call p has read the response and its body.
Handled(p) == sends[p].status = "2xx" /\ sends[p].result \in { "sent", "BodyFailed" }

\* C28 as stated: every 2xx application/json response delivers exactly one
\* message and send() returns; a text/event-stream response delivers the
\* messages of its "data: " lines in body order; another content type
\* delivers nothing.
C28_OneMessagePerJsonResponse ==
  \A p \in 1..Len(sends) :
    (kind = "streamable" /\ Handled(p)) =>
      CASE sends[p].contentType = "application/json" ->
             Len(DeliveredFrom(p)) = 1 /\ sends[p].result = "sent"
        [] sends[p].contentType = "text/event-stream" ->
             DeliveredFrom(p) = MessagesOf(p) /\ sends[p].result = "sent"
        [] OTHER -> DeliveredFrom(p) = << >> /\ sends[p].result = "sent"

\* C28: a 2xx application/json response whose body is valid JSON delivers
\* exactly that one message and send() returns, and one whose body is not
\* JSON delivers nothing and makes send() fail; a text/event-stream response
\* delivers the messages of its "data: " lines in body order; another
\* content type delivers nothing.
C28_OneMessagePerValidJsonResponse ==
  \A p \in 1..Len(sends) :
    (kind = "streamable" /\ Handled(p)) =>
      CASE sends[p].contentType = "application/json" ->
             /\ Len(BodyOf(p)) = 1
             /\ IF BodyOf(p)[1].data \in DOMAIN JsonFrames
                THEN /\ DeliveredFrom(p) = << Delivery(p, JsonFrames[BodyOf(p)[1].data]) >>
                     /\ sends[p].result = "sent"
                ELSE /\ DeliveredFrom(p) = << >>
                     /\ sends[p].result = "BodyFailed"
        [] sends[p].contentType = "text/event-stream" ->
             DeliveredFrom(p) = MessagesOf(p) /\ sends[p].result = "sent"
        [] OTHER -> DeliveredFrom(p) = << >> /\ sends[p].result = "sent"

\* C28 witness: a text/event-stream response of two "data: " lines delivered
\* its two different messages in body order and send() returned.
C28_Witness ==
  \E p \in 1..Len(sends) :
    /\ sends[p].result = "sent" /\ sends[p].contentType = "text/event-stream"
    /\ Len(DeliveredFrom(p)) = 2
    /\ DeliveredFrom(p)[1].msg # DeliveredFrom(p)[2].msg
    /\ DeliveredFrom(p)[1].msg = JsonFrames[BodyOf(p)[1].data]

\* A frame that is parsed and is not valid JSON: an SSE event the handler
\* does not skip, or a "data: " line of a streamed POST response.
InvalidFrame(f) ==
  /\ f.data \notin DOMAIN JsonFrames
  /\ \/ f.via = "data: "
     \/ f.via = "event" /\ f.data # "" /\ (kind = "streamable" => f.data # "ping")

ValidFrame(f) == f.via \in { "event", "data: " } /\ f.data \in DOMAIN JsonFrames

\* The send() and start() calls that have failed.
FailedCalls ==
  { << "send", p >> : p \in { q \in 1..Len(sends) :
                              sends[q].result \in { "SendFailed", "BodyFailed" } } }
  \cup { << "start", i >> : i \in { j \in 1..Len(startCalls) :
                                    startCalls[j].st \in StartFailures \cup { "threw" } } }

\* C29: a step in which an SSE event or a "data: " line that is not valid
\* JSON is received invokes neither the error callback nor the close
\* callback, fails no send() or start() call and leaves the transport
\* started and not closed as it was; and in every state, so also after such
\* a frame, a valid frame received is handed to the message callback.
C29_InvalidFramesDropped ==
  [][ /\ (\E k \in 1..Len(NewFrames) : InvalidFrame(NewFrames[k])) =>
           /\ onerrorCalls' = onerrorCalls
           /\ oncloseCalls' = oncloseCalls
           /\ isClosed' = isClosed /\ isStarted' = isStarted
           /\ eventSource' = eventSource
           /\ \A j \in 1..Len(startCalls) : startCalls'[j] = startCalls[j]
           /\ FailedCalls' = FailedCalls
      /\ \A k \in 1..Len(NewFrames) :
           ValidFrame(NewFrames[k]) =>
             \E d \in Len(delivered) + 1 .. Len(delivered') :
               delivered'[d].msg = JsonFrames[NewFrames[k].data]
    ]_trVars

\* C29 witness: a frame that is not valid JSON was received, a valid frame
\* after it, and the message of the valid one was delivered; no call failed
\* and the error callback was not invoked.
C29_Witness ==
  /\ \E j, k \in 1..Len(inbound) :
       j < k /\ InvalidFrame(inbound[j]) /\ ValidFrame(inbound[k])
  /\ delivered # << >>
  /\ onerrorCalls = 0 /\ FailedCalls = { } /\ ~isClosed

\* C30: a send() call whose POST was answered with a non-2xx status has
\* failed with SendFailed and delivered no message; the step in which the
\* answer arrives changes nothing else of the transport: session id,
\* captures, delivered messages, started and closed flags, endpoint, streams
\* and callbacks are as before.
C30_NonOkResponseFailsSend ==
  /\ [](\A p \in 1..Len(sends) :
          sends[p].status = "non-2xx" =>
            /\ sends[p].result = "SendFailed"
            /\ DeliveredFrom(p) = << >> /\ BodyOf(p) = << >>)
  /\ [][ \A p \in 1..Len(sends) :
           (sends[p].status = "" /\ sends'[p].status = "non-2xx") =>
             /\ UNCHANGED << sessionId, captures, delivered, inbound, isStarted,
                             isClosed, messagesEndpoint, eventSource, startCalls,
                             closeCalls, oncloseCalls, onerrorCalls, endpointSeen,
                             deletes >>
             /\ \A q \in 1..Len(sends) : q # p => sends'[q] = sends[q]
       ]_trVars

\* C30 witness: on the streamable-HTTP transport an initialize request was
\* answered with a non-2xx status: send() failed, and no session id is held.
C30_Witness ==
  /\ kind = "streamable"
  /\ \E p \in 1..Len(sends) :
       /\ sends[p].method = "initialize" /\ sends[p].status = "non-2xx"
       /\ sends[p].result = "SendFailed"
  /\ sessionId = "" /\ captures = << >> /\ delivered = << >>

\* The SSE events received so far.
EventsReceived == SelectSeq(inbound, LAMBDA f : f.via = "event")

\* C35: on the dual-channel transport the message callback is invoked at
\* most once per SSE event received: the invocations by the handlers of the
\* stream never outnumber the events.
C35_EventDeliveredAtMostOnce ==
  kind = "dual" => Len(DeliveredFrom(0)) <= Len(EventsReceived)

\* C39: once the close callback has run, no step invokes the message
\* callback, and every send() call made from then on fails (NotStarted or
\* Closed) without a request.
C39_NothingAfterClose ==
  [][ oncloseCalls >= 1 =>
        /\ delivered' = delivered
        /\ \A p \in (Len(sends) + 1)..Len(sends') :
             sends'[p].result \in { "NotStarted", "Closed" }
    ]_trVars

\* start() calls that failed before an endpoint event, and those that
\* resolved.
FailedStarts ==
  { i \in 1..Len(startCalls) :
      startCalls[i].st \in { "HandshakeTimeout", "HandshakeFailed" } }

ResolvedStarts == { i \in 1..Len(startCalls) : startCalls[i].st = "resolved" }

\* C40: on the dual-channel transport, while a start() call has failed and
\* none has resolved, the transport is not started and every send() call
\* fails with NotStarted.
C40_FailedStartStaysNotStarted ==
  /\ []((kind = "dual" /\ FailedStarts # { } /\ ResolvedStarts = { }) => ~isStarted)
  /\ [][ (kind = "dual" /\ FailedStarts # { } /\ ResolvedStarts = { }) =>
           \A p \in (Len(sends) + 1)..Len(sends') : sends'[p].result = "NotStarted"
       ]_trVars

(***************************************************************************)
(* PARSER ON TEXT (Chat.tsx 719-780)                                       *)
(***************************************************************************)
\* Blocks composed into one response text.
MaxSegments == 2

\* A response text is a sequence of tokens: the marker words in upper or
\* lower case, the separators "_" and " " (white space), ":", a word of
\* prose "w", and the texts enclosed by blocks, each one token.
\* What JSON.parse makes of an enclosed text (line 738), for the texts that
\* are valid JSON.
JsonTexts ==
  [t \in {"{ok}", "{noargs}", "{args:string}", "{args:number}",
          "{args:array}", "{args:null}", "{tool:number}", "42"} |->
     CASE t = "{ok}" -> OkBlock
       [] t = "{noargs}" -> MissingArgBlock
       [] t = "{args:string}" ->
            Block(TRUE, TRUE, "string", "add_task", "string", NoArgs)
       [] t = "{args:number}" ->
            Block(TRUE, TRUE, "string", "add_task", "number", NoArgs)
       [] t = "{args:array}" ->
            Block(TRUE, TRUE, "string", "add_task", "array", NoArgs)
       [] t = "{args:null}" ->
            Block(TRUE, TRUE, "string", "add_task", "null", NoArgs)
       [] t = "{tool:number}" ->
            Block(TRUE, TRUE, "number", "", "object", NoArgs)
       [] t = "42" -> Block(TRUE, FALSE, "absent", "", "absent", NoArgs)]

\* The enclosed texts a block is composed with ("{bad" is not valid JSON).
Bodies == DOMAIN JsonTexts \cup {"{bad"}

\* The i flag of the pattern.
Upper(t) ==
  CASE t = "tool" -> "TOOL" [] t = "call" -> "CALL" [] t = "end" -> "END"
    [] OTHER -> t

\* Only the underscore as separator.
UnderscoreOnlyMutant(t) == t = "_"

\* [\s_]
IsSep(t) == t \in {" ", "_"}

At(text, i) == IF i \in 1..Len(text) THEN text[i] ELSE ""

\* TOOL[\s_]?CALL at position i: the position after it, 0 if it does not match.
ToolCallWords(text, i) ==
  IF Upper(At(text, i)) # "TOOL" THEN 0
  ELSE IF IsSep(At(text, i + 1)) /\ Upper(At(text, i + 2)) = "CALL" THEN i + 3
  ELSE IF Upper(At(text, i + 1)) = "CALL" THEN i + 2
  ELSE 0

\* TOOL[\s_]?CALL:? at position i.
OpeningMarker(text, i) ==
  LET k == ToolCallWords(text, i)
  IN IF k # 0 /\ At(text, k) = ":" THEN k + 1 ELSE k

\* END[\s_]?TOOL[\s_]?CALL at position j.
ClosingMarker(text, j) ==
  IF Upper(At(text, j)) # "END" THEN 0
  ELSE IF IsSep(At(text, j + 1)) /\ ToolCallWords(text, j + 2) # 0
       THEN ToolCallWords(text, j + 2)
  ELSE ToolCallWords(text, j + 1)

\* String.prototype.trim (line 732).
RECURSIVE TrimLeft(_)
TrimLeft(text) ==
  IF text # <<>> /\ Head(text) = " " THEN TrimLeft(Tail(text)) ELSE text

RECURSIVE TrimRight(_)
TrimRight(text) ==
  IF text # <<>> /\ text[Len(text)] = " "
  THEN TrimRight(SubSeq(text, 1, Len(text) - 1)) ELSE text

Trim(text) == TrimRight(TrimLeft(text))

MinOf(S) == CHOOSE i \in S : \A j \in S : i <= j

\* toolCallPattern.exec from lastIndex `from` (lines 723, 731): the leftmost
\* opening marker that has a closing marker after it, the capture running to
\* the nearest one; found is FALSE when exec returns null.
toolCallPattern(text, from) ==
  LET closes(k) == { j \in k..Len(text) : ClosingMarker(text, j) # 0 }
      opens == { i \in from..Len(text) :
                   OpeningMarker(text, i) # 0 /\ closes(OpeningMarker(text, i)) # {} }
  IN IF opens = {}
     THEN [found |-> FALSE, jsonString |-> <<>>, lastIndex |-> 0]
     ELSE LET k == OpeningMarker(text, MinOf(opens))
              j == MinOf(closes(k))
          IN [found |-> TRUE,
              jsonString |-> Trim(SubSeq(text, k, j - 1)),
              lastIndex |-> ClosingMarker(text, j)]

\* The while loop of line 731: the trimmed captures, in text order.
RECURSIVE Captures(_, _)
Captures(text, from) ==
  LET match == toolCallPattern(text, from)
  IN IF match.found
     THEN << match.jsonString >> \o Captures(text, match.lastIndex)
     ELSE <<>>

\* JSON.parse(jsonString) inside the try of line 737.
Decoded(jsonString) ==
  IF Len(jsonString) = 1 /\ jsonString[1] \in DOMAIN JsonTexts
  THEN JsonTexts[jsonString[1]]
  ELSE NotJsonBlock

\* parseToolRequests(llmResponse) on the text of a response.
parseResponseText(llmResponse) ==
  LET found == Captures(llmResponse, 1)
  IN parseToolRequests([i \in 1..Len(found) |-> Decoded(found[i])])

VARIABLES
  llmResponse,     \* the response text handed to parseToolRequests
  segments,        \* history: the pieces the text was composed of
  markers,         \* how this model writes its markers
  parseDone,       \* parseToolRequests has returned
  parsedToolCalls  \* what it returned

parseVars == << llmResponse, segments, markers, parseDone, parsedToolCalls >>

MarkerStyles ==
  [open : {<<>>, <<" ">>, <<"_">>}, colon : BOOLEAN,
   endSep : {<<>>, <<" ">>, <<"_">>}, close : {<<>>, <<" ">>, <<"_">>},
   lower : BOOLEAN, gap : {<<>>, <<" ">>}]

Word(style, w) == IF style.lower THEN
                    (CASE w = "TOOL" -> "tool" [] w = "CALL" -> "call" [] OTHER -> "end")
                  ELSE w

\* One block as the model writes it.
BlockText(style, body) ==
  << Word(style, "TOOL") >> \o style.open \o << Word(style, "CALL") >>
    \o (IF style.colon THEN << ":" >> ELSE <<>>) \o style.gap
    \o << body >> \o style.gap
    \o << Word(style, "END") >> \o style.endSep \o << Word(style, "TOOL") >>
    \o style.close \o << Word(style, "CALL") >>

\* Prose between blocks: a plain word, or the words "tool call".
ProseTexts == [plain |-> << "w" >>, toolcall |-> << "tool", " ", "call" >>]

ParseInit ==
  /\ markers \in MarkerStyles
  /\ llmResponse = <<>>
  /\ segments = <<>>
  /\ parseDone = FALSE
  /\ parsedToolCalls = <<>>

Joined(text, more) == IF text = <<>> THEN more ELSE text \o << " " >> \o more

\* The model writes one more block.
WriteBlock(body) ==
  /\ ~parseDone
  /\ Len(segments) < MaxSegments
  /\ llmResponse' = Joined(llmResponse, BlockText(markers, body))
  /\ segments' = Append(segments, [kind |-> "block", text |-> body])
  /\ UNCHANGED << markers, parseDone, parsedToolCalls >>

\* The model writes some prose.
WriteProse(p) ==
  /\ ~parseDone
  /\ Len(segments) < MaxSegments
  /\ llmResponse' = Joined(llmResponse, ProseTexts[p])
  /\ segments' = Append(segments, [kind |-> "prose", text |-> p])
  /\ UNCHANGED << markers, parseDone, parsedToolCalls >>

\* parseToolRequests(llmResponse)
ParseResponse ==
  /\ ~parseDone
  /\ parseDone' = TRUE
  /\ parsedToolCalls' = parseResponseText(llmResponse)
  /\ UNCHANGED << llmResponse, segments, markers >>

(***************************************************************************)
(* VALIDATOR ON ITS INPUTS (Chat.tsx 783-826)                              *)
(***************************************************************************)
\* The kinds of value an argument may have ("absent": the key is not there).
ArgValues == {"absent", "null", "string", "number", "boolean", "object"}

\* A tool whose schema declares a number, a boolean and an integer.
TypedTool ==
  [name |-> "typed", serverName |-> "local",
   required |-> << "title", "query" >>,
   properties |-> [p \in ArgNames |->
                     CASE p = "title" -> "number" [] p = "query" -> "boolean"
                       [] p = "extra" -> "integer" [] OTHER -> "none"]]

\* The tools validateToolArguments is applied to.
ValidatedTools == { mcpTools[i] : i \in 1..Len(mcpTools) } \cup { TypedTool }

VARIABLES
  valTool,          \* the tool handed to validateToolArguments
  valArgs,          \* the arguments handed to it
  valDone,          \* it has returned
  validationError   \* what it returned (Valid for null)

valVars == << valTool, valArgs, valDone, validationError >>

ValidateInit ==
  /\ valTool \in ValidatedTools
  /\ valArgs \in [ArgNames -> ArgValues]
  /\ valDone = FALSE
  /\ validationError = Valid

\* validateToolArguments(tool, args)
Validate ==
  /\ ~valDone
  /\ valDone' = TRUE
  /\ validationError' = validateToolArguments(valTool, valArgs)
  /\ UNCHANGED << valTool, valArgs >>

(***************************************************************************)
(* VALIDATOR: properties                                                   *)
(***************************************************************************)
\* The required names that are absent or null.
MissingRequired(tool, args) ==
  { tool.required[i] : i \in { k \in 1..Len(tool.required) :
                                 args[tool.required[k]] \in {"absent", "null"} } }

\* typeof a value of the declared type.
PrimitiveOf(declared) == IF declared = "integer" THEN "number" ELSE declared

\* The present arguments declared as string, number, integer or boolean
\* whose value has another primitive type.
Mismatched(tool, args) ==
  { p \in ArgNames :
      /\ args[p] # "absent"
      /\ tool.properties[p] \in {"string", "number", "integer", "boolean"}
      /\ TypeOf(args[p]) # PrimitiveOf(tool.properties[p]) }

\* C23: when a required name is absent or null, validation fails with the
\* missing-parameter error naming such a name; otherwise, when a present
\* argument declared as string, number/integer or boolean has a value of
\* another primitive type, it fails with the type error naming a parameter,
\* the expected and the actual type, all three true of the arguments.
C23_MissingThenTypeMismatch ==
  valDone =>
    /\ MissingRequired(valTool, valArgs) # {} =>
         /\ validationError.kind = "missing"
         /\ validationError.param \in MissingRequired(valTool, valArgs)
    /\ (MissingRequired(valTool, valArgs) = {} /\ Mismatched(valTool, valArgs) # {}) =>
         /\ validationError.kind = "type"
         /\ validationError.actual = TypeOf(valArgs[validationError.param])
         /\ validationError.actual # validationError.expected
         /\ validationError.param \in Mismatched(valTool, valArgs) =>
              validationError.expected =
                PrimitiveOf(valTool.properties[validationError.param])
         /\ valTool.name # "rag_data" =>
              validationError.param \in Mismatched(valTool, valArgs)

\* add_task requires {title: string}; {title: 42} was rejected as a type
\* mismatch on title.
C23_Witness ==
  /\ valDone
  /\ valTool.name = "add_task"
  /\ valArgs = [NoArgs EXCEPT !["title"] = "number"]
  /\ validationError =
       [kind |-> "type", param |-> "title", expected |-> "string", actual |-> "number"]

\* The arguments without the keys the tool's schema does not declare.
DeclaredOnly(tool, args) ==
  [p \in ArgNames |-> IF tool.properties[p] = "none" THEN "absent" ELSE args[p]]

CheckedUndeclared(tool, p) == tool.name = "rag_data" /\ p = "use_reranker"

WrittenBlocks ==
  LET blocks == SelectSeq(segments, LAMBDA g : g.kind = "block")
  IN [i \in 1..Len(blocks) |-> Decoded(<< blocks[i].text >>)]

\* The requests of the well-formed blocks written, in text order.
WellFormedRequests ==
  LET good == SelectSeq(WrittenBlocks, BlockAccepted)
  IN [i \in 1..Len(good) |-> ToolCallRequest(good[i])]

\* C21: parseToolRequests returns, in text order, exactly one request for
\* every well-formed block of the response; a block whose text is not valid
\* JSON yields none and does not keep the other blocks from being parsed.
C21_OneRequestPerWellFormedBlock ==
  parseDone => parsedToolCalls = WellFormedRequests

\* No prose of the text holds marker words.
PlainProse ==
  \A i \in 1..Len(segments) :
    segments[i].kind = "prose" => segments[i].text = "plain"

\* The structure a decoded block must have: an object with a string tool
\* field whose arguments field is an object or absent.
ObjectOrAbsentArguments(b) ==
  /\ b.json /\ b.isObject /\ b.toolKind = "string"
  /\ b.argsKind \in {"object", "absent"}

\* C22: a decoded block yields a request exactly when it is an object with a
\* string tool field and an arguments field that is an object or absent
\* (a string, number, array or null rejects the block); absent arguments
\* yield the empty argument set.
C22_ArgumentsObjectOrAbsent ==
  (parseDone /\ PlainProse) =>
    LET good == SelectSeq(WrittenBlocks, ObjectOrAbsentArguments)
    IN /\ Len(parsedToolCalls) = Len(good)
       /\ \A i \in 1..Len(good) :
            /\ parsedToolCalls[i].tool = good[i].tool
            /\ good[i].argsKind = "absent" => parsedToolCalls[i].arguments = NoArgs
            /\ good[i].argsKind = "object" => parsedToolCalls[i].arguments = good[i].args

\* The enclosed texts of the blocks written, in text order.
WrittenTexts ==
  LET blocks == SelectSeq(segments, LAMBDA g : g.kind = "block")
  IN [i \in 1..Len(blocks) |-> << blocks[i].text >>]

\* C25: whatever separator (none, space, underscore) the opening and the
\* closing marker are written with, the same or not, in upper or lower case,
\* with or without a colon and with or without white space around the
\* enclosed text, every block of a text whose prose holds no marker words is
\* recognised: the pattern captures exactly the enclosed texts of the
\* blocks, in order, and the requests returned are those of these blocks.
C25_MarkersTolerant ==
  (parseDone /\ PlainProse) =>
    /\ Captures(llmResponse, 1) = WrittenTexts
    /\ parsedToolCalls = parseToolRequests(WrittenBlocks)

\* "TOOL CALL:" ... "END_TOOLCALL" around valid JSON was parsed into exactly
\* one request.
C25_Witness ==
  /\ parseDone
  /\ markers.open = << " " >> /\ markers.colon
  /\ markers.endSep = << "_" >> /\ markers.close = <<>>
  /\ segments = << [kind |-> "block", text |-> "{ok}"] >>
  /\ Len(parsedToolCalls) = 1
  /\ parsedToolCalls[1].tool = "add_task"

(***************************************************************************)
(* SPECIFICATIONS: one per component; the other components stay at rest.   *)
(***************************************************************************)
vars == << orchVars, regVars, trVars, parseVars, valVars, hookVars >>

OrchIdle ==
  /\ messages = <<>> /\ assistantResponseCount = 0
  /\ isLoading = FALSE /\ error = "none" /\ pc = "idle"
  /\ closureMessages = <<>> /\ currentMessages = <<>>
  /\ currentResponse = NoResponse /\ iteration = 0
  /\ requestedToolCalls = <<>> /\ callIdx = 0 /\ toolResults = <<>>
  /\ apiMessages = <<>> /\ llmCalls = 0 /\ toolLog = <<>> /\ varied = 0
  /\ compression = "none"

RegIdle ==
  /\ configs = <<>> /\ mcpServers = <<>> /\ connectingServers = {}
  /\ transports = {} /\ tasks = [c \in Callers |-> IdleTask]
  /\ opsStarted = 0

TrIdle ==
  /\ kind = "dual"
  /\ isStarted = FALSE /\ isClosed = FALSE
  /\ sessionId = "" /\ messagesEndpoint = "" /\ eventSource = 0
  /\ startCalls = <<>> /\ sends = <<>> /\ inflight = {}
  /\ closeCalls = <<>> /\ oncloseCalls = 0 /\ captures = <<>>
  /\ endpointSeen = FALSE /\ calls = 0
  /\ inbound = <<>> /\ delivered = <<>> /\ onerrorCalls = 0 /\ deletes = <<>>

ValIdle ==
  /\ valTool = mcpTools[1] /\ valArgs = NoArgs
  /\ valDone = FALSE /\ validationError = Valid

ParseIdle ==
  /\ llmResponse = <<>> /\ segments = <<>> /\ parseDone = FALSE
  /\ parsedToolCalls = <<>>
  /\ markers = [open |-> <<"_">>, colon |-> TRUE, endSep |-> <<"_">>,
                close |-> <<"_">>, lower |-> FALSE, gap |-> <<" ">>]

orchRest == << regVars, trVars, parseVars, valVars, hookVars >>
regRest == << orchVars, trVars, parseVars, valVars, hookVars >>
trRest == << orchVars, regVars, parseVars, valVars, hookVars >>
parseRest == << orchVars, regVars, trVars, valVars, hookVars >>
valRest == << orchVars, regVars, trVars, parseVars, hookVars >>
hookRest == << regVars, trVars, parseVars, valVars >>

\* Each step is one action of one component.
OrchStep ==
  \/ HandleSend("question") /\ UNCHANGED orchRest
  \/ (\E blocks \in ResponsePool : LLMRespond(blocks)) /\ UNCHANGED orchRest
  \/ LLMFail /\ UNCHANGED orchRest
  \/ ToolReturn /\ UNCHANGED orchRest
  \/ ToolThrow /\ UNCHANGED orchRest
  \/ CompressionDone /\ UNCHANGED orchRest
  \/ CompressionFail /\ UNCHANGED orchRest

RegStep ==
  \/ (\E c \in Callers : ConnectAll(c)) /\ UNCHANGED regRest
  \/ (\E c \in Callers : ListTools(c)) /\ UNCHANGED regRest
  \/ (\E c \in Callers : \E in \in CallInputs : CallTool(c, in[1], in[2]))
       /\ UNCHANGED regRest
  \/ (\E c \in Callers : CloseAll(c)) /\ UNCHANGED regRest
  \/ (\E tid \in { t.id : t \in transports } : HandshakeOK(tid)) /\ UNCHANGED regRest
  \/ (\E tid \in { t.id : t \in transports } : HandshakeFail(tid)) /\ UNCHANGED regRest
  \/ (\E c \in Callers : \E outcomes \in [1..Len(tasks[c].snapshot) -> {"ok", "fail"}] :
        ListFinish(c, outcomes)) /\ UNCHANGED regRest
  \/ (\E c \in Callers : \E ok \in BOOLEAN : CallFinish(c, ok)) /\ UNCHANGED regRest
  \/ (\E c \in Callers : CloseAllFinish(c)) /\ UNCHANGED regRest

TransportStep ==
  \/ DCStart /\ UNCHANGED trRest
  \/ (\E i \in 1..Len(startCalls) : \E data \in EndpointData : DCEndpoint(i, data))
       /\ UNCHANGED trRest
  \/ (\E i \in 1..Len(startCalls) : \E data \in EventData : DCMessage(i, data))
       /\ UNCHANGED trRest
  \/ (\E i \in 1..Len(startCalls) : DCStreamError(i)) /\ UNCHANGED trRest
  \/ (\E i \in 1..Len(startCalls) : DCTimeout(i)) /\ UNCHANGED trRest
  \/ (\E method \in Methods : DCSend(method)) /\ UNCHANGED trRest
  \/ (\E p \in inflight : \E ok \in BOOLEAN : DCPostDone(p, ok)) /\ UNCHANGED trRest
  \/ DCClose /\ UNCHANGED trRest
  \/ SHStart /\ UNCHANGED trRest
  \/ (\E data \in EventData : SHMessage(data)) /\ UNCHANGED trRest
  \/ SHStreamError /\ UNCHANGED trRest
  \/ (\E method \in Methods : SHSend(method)) /\ UNCHANGED trRest
  \/ (\E p \in inflight : \E ok \in BOOLEAN : \E header \in SessionHeaders :
        \E contentType \in ContentTypes : SHResponse(p, ok, header, contentType))
       /\ UNCHANGED trRest
  \/ (\E p \in inflight : \E body \in JsonBodies : SHJsonBody(p, body))
       /\ UNCHANGED trRest
  \/ (\E p \in inflight : \E lines \in SeqsUpTo(Lines, MaxCalls - calls) : SHStreamBody(p, lines))
       /\ UNCHANGED trRest
  \/ SHClose /\ UNCHANGED trRest
  \/ (\E i \in 1..Len(closeCalls) : \E ok \in BOOLEAN : SHDeleteDone(i, ok))
       /\ UNCHANGED trRest

ParseStep ==
  \/ (\E body \in Bodies : WriteBlock(body)) /\ UNCHANGED parseRest
  \/ (\E p \in DOMAIN ProseTexts : WriteProse(p)) /\ UNCHANGED parseRest
  \/ ParseResponse /\ UNCHANGED parseRest

ValidateStep == Validate /\ UNCHANGED valRest

\* The chat with the agent-task hook: the steps of handleSend called by the
\* user and those of one run of checkAndProcessTasks.
TurnsStep ==
  \/ OrchStep
  \/ checkAndProcessTasks /\ UNCHANGED hookRest
  \/ NoPendingTask /\ UNCHANGED hookRest
  \/ processTask /\ UNCHANGED hookRest
  \/ AutoRespond /\ UNCHANGED hookRest
  \/ AutoFail /\ UNCHANGED hookRest

InitOrch == OrchInit /\ RegIdle /\ TrIdle /\ ParseIdle /\ ValIdle /\ HookIdle
InitReg == RegInit /\ OrchIdle /\ TrIdle /\ ParseIdle /\ ValIdle /\ HookIdle
InitTransport == TrInit /\ OrchIdle /\ RegIdle /\ ParseIdle /\ ValIdle /\ HookIdle
InitParse == ParseInit /\ OrchIdle /\ RegIdle /\ TrIdle /\ ValIdle /\ HookIdle
InitValidate == ValidateInit /\ OrchIdle /\ RegIdle /\ TrIdle /\ ParseIdle /\ HookIdle

SpecOrch == InitOrch /\ [][OrchStep]_vars
SpecReg == InitReg /\ [][RegStep]_vars
SpecTransport == InitTransport /\ [][TransportStep]_vars
SpecParse == InitParse /\ [][ParseStep]_vars
SpecValidate == InitValidate /\ [][ValidateStep]_vars
SpecTurns == InitOrch /\ [][TurnsStep]_vars

\* The timer armed by a start() call fires (setTimeout, 10 s).
TimersFire == \A i \in 1..MaxCalls : WF_vars(DCTimeout(i) /\ UNCHANGED trRest)

SpecTransportFair == SpecTransport /\ TimersFire

====
